---- MODULE Spec2Model ----
(***************************************************************************)
(* Model of the municipal planning pipeline: risk scoring and candidate    *)
(* formation, budget-constrained portfolio allocation, and                 *)
(* resource-constrained scheduling over the SQLite store.                  *)
(*                                                                         *)
(* The store is modelled table by table.  Each operation (a Runner branch, *)
(* a tool function, a context method) is one action that performs the      *)
(* whole handler, loops included.                                          *)
(***************************************************************************)
EXTENDS Integers, Sequences, FiniteSets, TLC

VARIABLES
    driver,             \* which `agents` package drives the stages: the local shim or the tool-calling SDK
    issues,             \* issues LEFT JOIN issue_signals, indexed by issue_id
    quarterly_budget,   \* MunicipalContext.quarterly_budget
    candidates,         \* project_candidates rows, in rowid order
    seq_project_id,     \* AUTOINCREMENT high-water mark of project_candidates
    decisions,          \* portfolio_decisions rows, in rowid order
    calendar,           \* resource_calendar: <<resource_type, week>> -> [capacity, allocated]
    tasks,              \* schedule_tasks rows, in rowid order
    audit_log,          \* audit_log rows, in rowid order
    pc,                 \* position of the pipeline run
    calls,              \* how often the bounded operations have been called
    ret,                \* what the last operation returned or raised
    oracle_fails,       \* start weeks whose forecast call to the weather service raises
    oracle_bare,        \* start weeks whose forecast comes back without an adverse_days field
    last_run,           \* history: what the run before the last reset at the service boundary left in the store
    inflight            \* allocate_resource calls that have read the capacity and not yet issued their UPDATE

vars == <<driver, issues, quarterly_budget, candidates, seq_project_id, decisions,
          calendar, tasks, audit_log, pc, calls, ret, oracle_fails, oracle_bare,
          last_run, inflight>>

(***************************************************************************)
(* Bounds of the model.                                                    *)
(***************************************************************************)
MaxIssues == 2
MaxRuns == 1
MaxToolCalls == 5
MaxSchedProjects == 2
MaxRequests == 2
MaxAllocations == 4
MaxStageRuns == 4
MaxKnapsackCandidates == 2

(***************************************************************************)
(* Program constants.                                                      *)
(***************************************************************************)
\* SQL NULL / Python None in a nullable integer column.  The CHECK
\* constraints keep real values of the signal columns non-negative.
NULL == -1

\* float('nan'): the value float() gives for the string "nan".  Every ordering
\* comparison with it is False.
NaN == -2

planning_horizon_weeks == 12
CalendarWeeks == 12

high_population == 100000
high_complaints == 75
high_risk_score == 3

w_safety_risk == 3
w_legal_mandate == 3
w_population_impact == 1
w_complaint_volume == 1

ResourceTypes == {"water_crew", "electrical_crew", "construction_crew", "general_crew"}

SeedCapacity(rtype) ==
    CASE rtype = "water_crew" -> 3
      [] rtype = "electrical_crew" -> 2
      [] rtype = "construction_crew" -> 5
      [] OTHER -> 4

\* CREW_MAPPING.get(category, "general_crew")
get_crew_type(category) ==
    CASE category = "Water" -> "water_crew"
      [] category = "Health" -> "electrical_crew"
      [] category \in {"Disaster Management", "Infrastructure"} -> "construction_crew"
      [] category \in {"Recreation", "Education"} -> "general_crew"
      [] OTHER -> "general_crew"

(***************************************************************************)
(* Generic helpers.                                                        *)
(***************************************************************************)
\* Python truthiness of a nullable integer: None and 0 are falsy.
Truthy(x) == x # NULL /\ x # 0

\* Python `x or d` for a nullable integer.
OrDefault(x, d) == IF Truthy(x) THEN x ELSE d

RECURSIVE SumSeq(_)
SumSeq(s) == IF s = <<>> THEN 0 ELSE Head(s) + SumSeq(Tail(s))

(***************************************************************************)
(* Risk scoring.                                                           *)
(***************************************************************************)
\* `None >= int` raises TypeError in Python 3: dict.get returns the stored
\* None, the default 0 is used only for an absent key.
ScoreRaises(signal) ==
    signal.population_affected = NULL \/ signal.complaint_count = NULL

compute_risk_score(signal) ==
      (IF Truthy(signal.safety_risk) THEN w_safety_risk ELSE 0)
    + (IF Truthy(signal.legal_mandate) THEN w_legal_mandate ELSE 0)
    + (IF signal.population_affected >= high_population THEN w_population_impact ELSE 0)
    + (IF signal.complaint_count >= high_complaints THEN w_complaint_volume ELSE 0)


(***************************************************************************)
(* Formation stage (Runner shim, Formation branch).                        *)
(***************************************************************************)
\* SELECT ... FROM issues LEFT JOIN issue_signals WHERE status = 'OPEN'
\* ORDER BY urgency_days ASC.  SQLite puts NULL first; rows with equal keys
\* come out in scan (issue_id) order.
get_open_issues ==
    LET open == {i \in DOMAIN issues : issues[i].status = "OPEN"}
        Before(j, i) == \/ issues[j].urgency_days < issues[i].urgency_days
                        \/ (issues[j].urgency_days = issues[i].urgency_days /\ j < i)
        Pos(i) == 1 + Cardinality({j \in open \ {i} : Before(j, i)})
    IN  [k \in 1..Cardinality(open) |-> CHOOSE i \in open : Pos(i) = k]

\* Tiers that start strictly above their thresholds.
EstimateWeeksMut(est_cost) ==
    IF est_cost > 50000000 THEN 8
    ELSE IF est_cost > 10000000 THEN 4
    ELSE IF est_cost > 1000000 THEN 2
    ELSE 1

\* The cost-tier heuristic of the Runner's Formation branch.
EstimateWeeks(est_cost) ==
    IF est_cost >= 50000000 THEN 8
    ELSE IF est_cost >= 10000000 THEN 4
    ELSE IF est_cost >= 1000000 THEN 2
    ELSE 1

EstimateCrew(est_cost) ==
    IF est_cost >= 50000000 THEN 3
    ELSE IF est_cost >= 10000000 THEN 2
    ELSE IF est_cost >= 1000000 THEN 2
    ELSE 1

\* INSERT INTO project_candidates: the row the Runner builds for an issue.
FormationRow(pid, issue_id) ==
    LET issue == issues[issue_id]
        est_cost == OrDefault(issue.estimated_cost, 0)
    IN  [project_id |-> pid,
         issue_id |-> issue_id,
         estimated_cost |-> est_cost,
         estimated_weeks |-> EstimateWeeks(est_cost),
         required_crew_type |-> get_crew_type(issue.category),
         crew_size |-> EstimateCrew(est_cost),
         risk_score |-> compute_risk_score(issue)]

\* The Runner's loop over the open issues, from position k on.  An exception
\* raised by compute_risk_score leaves the loop with the rows committed so
\* far (every insert commits on its own connection).
RECURSIVE FormationLoop(_, _, _, _)
FormationLoop(order, k, cands, lastId) ==
    IF k > Len(order) THEN [cands |-> cands, lastId |-> lastId, raised |-> FALSE]
    ELSE IF ScoreRaises(issues[order[k]])
         THEN [cands |-> cands, lastId |-> lastId, raised |-> TRUE]
    ELSE IF compute_risk_score(issues[order[k]]) >= high_risk_score
         THEN FormationLoop(order, k + 1,
                            Append(cands, FormationRow(lastId + 1, order[k])),
                            lastId + 1)
    ELSE FormationLoop(order, k + 1, cands, lastId)

(***************************************************************************)
(* Allocation stage (Runner shim, Governance branch) and the governance    *)
(* tools approve_project / reject_project.                                 *)
(***************************************************************************)
\* SELECT * FROM project_candidates ORDER BY risk_score DESC
get_project_candidates ==
    LET n == Len(candidates)
        Before(j, i) == \/ candidates[j].risk_score > candidates[i].risk_score
                        \/ (candidates[j].risk_score = candidates[i].risk_score /\ j < i)
        Pos(i) == 1 + Cardinality({j \in (1..n) \ {i} : Before(j, i)})
    IN  [k \in 1..n |-> candidates[CHOOSE i \in 1..n : Pos(i) = k]]

\* score_density(c) = risk_score / (estimated_cost or 1), compared exactly by
\* cross-multiplication (the denominators are positive).
DensityLess(a, b) ==
    a.risk_score * OrDefault(b.estimated_cost, 1) < b.risk_score * OrDefault(a.estimated_cost, 1)

\* The Runner's sort key (-risk_score, score_density(c)), ascending.
PriorityKeyLess(a, b) ==
    \/ a.risk_score > b.risk_score
    \/ (a.risk_score = b.risk_score /\ DensityLess(a, b))

\* The candidates taken in the reverse of the order they arrive in.
PrioritizedMut(cands) ==
    [k \in 1..Len(cands) |-> cands[Len(cands) + 1 - k]]

\* sorted(candidates, key=...): Python's sort is stable.
Prioritized(cands) ==
    LET n == Len(cands)
        Before(j, i) == \/ PriorityKeyLess(cands[j], cands[i])
                        \/ (~PriorityKeyLess(cands[i], cands[j]) /\ j < i)
        Pos(i) == 1 + Cardinality({j \in (1..n) \ {i} : Before(j, i)})
    IN  [k \in 1..n |-> cands[CHOOSE i \in 1..n : Pos(i) = k]]

\* An approved row that carries no money.
RunnerApprovedRowMut(c, cost, rank) ==
    [project_id |-> c.project_id, decision |-> "APPROVED",
     allocated_budget |-> 0, priority_rank |-> rank]

\* The Runner's acceptance test (False against a NaN budget).
RunnerFits(cost, remaining) == remaining # NaN /\ cost <= remaining

RunnerApprovedRow(c, cost, rank) ==
    [project_id |-> c.project_id, decision |-> "APPROVED",
     allocated_budget |-> cost, priority_rank |-> rank]

RunnerRejectedRow(c, rank) ==
    [project_id |-> c.project_id, decision |-> "REJECTED",
     allocated_budget |-> 0, priority_rank |-> rank]

\* The Runner's loop over the prioritized candidates, from position k on.
RECURSIVE GovernanceLoop(_, _, _, _, _)
GovernanceLoop(prior, k, remaining, rank, decs) ==
    IF k > Len(prior) THEN decs
    ELSE LET c == prior[k]
             cost == OrDefault(c.estimated_cost, 0)
         IN  IF RunnerFits(cost, remaining)
             THEN GovernanceLoop(prior, k + 1, remaining - cost, rank + 1,
                                 Append(decs, RunnerApprovedRow(c, cost, rank)))
             ELSE GovernanceLoop(prior, k + 1, remaining, rank + 1,
                                 Append(decs, RunnerRejectedRow(c, rank)))

CandidateIds == {candidates[i].project_id : i \in 1..Len(candidates)}

CandidateById(pid) == candidates[CHOOSE i \in 1..Len(candidates) : candidates[i].project_id = pid]

\* portfolio_decisions JOIN project_candidates: the decision rows whose
\* project still exists, in rowid order.
JoinedDecisions == SelectSeq(decisions, LAMBDA d : d.project_id \in CandidateIds)

\* sum(allocated_budget) over the APPROVED rows of get_portfolio_decisions()
AllocatedBudget ==
    LET approved == SelectSeq(JoinedDecisions, LAMBDA d : d.decision = "APPROVED")
    IN  SumSeq([i \in 1..Len(approved) |-> approved[i].allocated_budget])

\* A budget check that never reports an overrun.
InsufficientBudgetMut(allocated, cost, budget) == FALSE

\* approve_project's budget check: the error branch.
InsufficientBudget(allocated, cost, budget) == allocated + cost > budget

ToolApprovedRow(project, priority_rank) ==
    [project_id |-> project.project_id, decision |-> "APPROVED",
     allocated_budget |-> project.estimated_cost, priority_rank |-> priority_rank]

ToolRejectedRow(project) ==
    [project_id |-> project.project_id, decision |-> "REJECTED",
     allocated_budget |-> 0, priority_rank |-> 999]

AuditRow(event_type, agent_name, project_id) ==
    [event_type |-> event_type, agent_name |-> agent_name, project_id |-> project_id]

(***************************************************************************)
(* Resource calendar.                                                      *)
(***************************************************************************)
Min(a, b) == IF a <= b THEN a ELSE b

\* SELECT capacity - allocated ... ; 0 when no row matches.
get_available_capacity(cal, resource_type, week) ==
    IF <<resource_type, week>> \in DOMAIN cal
    THEN cal[<<resource_type, week>>].capacity - cal[<<resource_type, week>>].allocated
    ELSE 0

\* A gate that lets every allocation through.
AllocationAllowedMut(available, units) == TRUE

\* allocate_resource's gate before the UPDATE.
AllocationAllowed(available, units) == available >= units

\* An allocation that fills the entry up to its capacity when the request
\* does not fit.
allocate_resourceMut(cal, resource_type, week, units) ==
    IF <<resource_type, week>> \in DOMAIN cal
    THEN [cal EXCEPT ![<<resource_type, week>>].allocated =
                         Min(@ + units, cal[<<resource_type, week>>].capacity)]
    ELSE cal

\* The calendar after allocate_resource(resource_type, week, units); the
\* UPDATE touches no row when the entry does not exist.
allocate_resource(cal, resource_type, week, units) ==
    IF /\ AllocationAllowed(get_available_capacity(cal, resource_type, week), units)
       /\ <<resource_type, week>> \in DOMAIN cal
    THEN [cal EXCEPT ![<<resource_type, week>>].allocated = @ + units]
    ELSE cal

\* allocate_resource for week = first .. last, in increasing order.
RECURSIVE AllocateWeeks(_, _, _, _, _)
AllocateWeeks(cal, resource_type, first, last, units) ==
    IF first > last THEN cal
    ELSE AllocateWeeks(allocate_resource(cal, resource_type, first, units),
                       resource_type, first + 1, last, units)

\* The approved projects in the order their decisions were written.
get_approved_projectsMut ==
    LET approved == SelectSeq(JoinedDecisions, LAMBDA d : d.decision = "APPROVED")
    IN  [k \in 1..Len(approved) |->
            [project_id |-> approved[k].project_id,
             allocated_budget |-> approved[k].allocated_budget,
             priority_rank |-> approved[k].priority_rank,
             estimated_weeks |-> CandidateById(approved[k].project_id).estimated_weeks,
             required_crew_type |-> CandidateById(approved[k].project_id).required_crew_type,
             crew_size |-> CandidateById(approved[k].project_id).crew_size]]

\* SELECT ... FROM portfolio_decisions pd JOIN project_candidates pc
\* WHERE pd.decision = 'APPROVED' ORDER BY pd.priority_rank ASC
get_approved_projects ==
    LET approved == SelectSeq(JoinedDecisions, LAMBDA d : d.decision = "APPROVED")
        n == Len(approved)
        Before(j, i) == \/ approved[j].priority_rank < approved[i].priority_rank
                        \/ (approved[j].priority_rank = approved[i].priority_rank /\ j < i)
        Pos(i) == 1 + Cardinality({j \in (1..n) \ {i} : Before(j, i)})
        Row(d) == LET c == CandidateById(d.project_id)
                  IN  [project_id |-> d.project_id,
                       allocated_budget |-> d.allocated_budget,
                       priority_rank |-> d.priority_rank,
                       estimated_weeks |-> c.estimated_weeks,
                       required_crew_type |-> c.required_crew_type,
                       crew_size |-> c.crew_size]
    IN  [k \in 1..n |-> Row(approved[CHOOSE i \in 1..n : Pos(i) = k])]

TaskRow(project_id, start_week, end_week, resource_type, crew_assigned) ==
    [project_id |-> project_id, start_week |-> start_week, end_week |-> end_week,
     resource_type |-> resource_type, crew_assigned |-> crew_assigned]

(***************************************************************************)
(* Scheduling stage (Runner shim, Scheduling branch).                      *)
(***************************************************************************)
\* The candidate start weeks the Runner scans.
RunnerStartWeeks == 1..planning_horizon_weeks

\* Last week the Runner checks and allocates for a start week:
\* range(start, min(start + weeks, horizon + 1)).
RunnerLastWeek(start, weeks) == Min(start + weeks, planning_horizon_weeks + 1) - 1

\* An end week cut off at the last week the Runner allocates.
RunnerEndWeekMut(start, weeks) == RunnerLastWeek(start, weeks)

\* The end_week the Runner persists.
RunnerEndWeek(start, weeks) == start + weeks - 1

RunnerCanAllocate(cal, proj, start) ==
    \A w \in start..RunnerLastWeek(start, proj.estimated_weeks) :
        ~(get_available_capacity(cal, proj.required_crew_type, w) < proj.crew_size)

\* The Runner's loop over the approved projects, from position k on.
RECURSIVE RunnerScheduleLoop(_, _, _, _)
RunnerScheduleLoop(approved, k, cal, tks) ==
    IF k > Len(approved) THEN [calendar |-> cal, tasks |-> tks]
    ELSE LET proj == approved[k]
             fits == {s \in RunnerStartWeeks : RunnerCanAllocate(cal, proj, s)}
         IN  IF fits = {}
             THEN RunnerScheduleLoop(approved, k + 1, cal, tks)
             ELSE LET start == CHOOSE s \in fits : \A t \in fits : s <= t
                  IN  RunnerScheduleLoop(approved, k + 1,
                          AllocateWeeks(cal, proj.required_crew_type, start,
                                        RunnerLastWeek(start, proj.estimated_weeks),
                                        proj.crew_size),
                          Append(tks, TaskRow(proj.project_id, start,
                                              RunnerEndWeek(start, proj.estimated_weeks),
                                              proj.required_crew_type, proj.crew_size)))

(***************************************************************************)
(* Weather service (mock MCP server) and run_greedy_scheduler.             *)
(***************************************************************************)
\* A forecast without adverse days.
adverse_daysMut(start_week, end_week) == 0

\* WeatherServiceMCPServer.call_tool("get_forecast_for_weeks")["adverse_days"]
adverse_days(start_week, end_week) ==
      (IF (start_week <= 4 /\ 4 <= end_week) \/ (3 <= start_week /\ start_week <= 4)
       THEN 5 ELSE 0)
    + (IF (start_week <= 9 /\ 9 <= end_week) \/ (8 <= start_week /\ start_week <= 9)
       THEN 2 ELSE 0)

is_outdoor_project(category, crew_type) ==
    \/ category \in {"Infrastructure", "Water", "Construction"}
    \/ crew_type \in {"construction_crew", "water_crew", "general_crew"}

\* The category run_greedy_scheduler finds for a project: through the
\* candidate's issue_id among the OPEN issues, '' otherwise.
ProjectCategory(project_id) ==
    LET issue_id == CandidateById(project_id).issue_id
    IN  IF issue_id \in DOMAIN issues /\ issues[issue_id].status = "OPEN"
        THEN issues[issue_id].category
        ELSE ""

\* A scan that leaves out the first week.
GreedyStartWeeksMut(duration) == 2..(planning_horizon_weeks - duration + 1)

\* range(1, horizon - duration + 2)
GreedyStartWeeks(duration) == 1..(planning_horizon_weeks - duration + 1)

\* A capacity check that lets every window through.
GreedyCapacityFeasibleMut(cal, p, start_week) == start_week >= 1

\* The capacity check of one window.
GreedyCapacityFeasible(cal, p, start_week) ==
    \A week \in start_week..(start_week + p.estimated_weeks - 1) :
        /\ ~(week > planning_horizon_weeks)
        /\ ~(get_available_capacity(cal, p.required_crew_type, week) < p.crew_size)

\* forecast.get('adverse_days', 0)
ForecastAdverseDays(start_week, end_week) ==
    IF start_week \in oracle_bare THEN 0 ELSE adverse_days(start_week, end_week)

\* A threshold that already turns down a window with 2 adverse days.
SignificantAdverseWeatherMut(days) == days >= 2

\* "Skip if significant adverse weather (>2 days)"
SignificantAdverseWeather(days) == days > 2

\* A weather check that also turns a window down when the forecast call raises.
WeatherRejectsMut(is_outdoor, start_week, end_week) ==
    /\ is_outdoor
    /\ \/ start_week \in oracle_fails
       \/ SignificantAdverseWeather(ForecastAdverseDays(start_week, end_week))

\* The weather check of one window: skip it on more than 2 adverse days.  A
\* call that raises lands in the bare `except: pass` and the window goes on
\* to allocation.
WeatherRejects(is_outdoor, start_week, end_week) ==
    /\ is_outdoor
    /\ start_week \notin oracle_fails
    /\ SignificantAdverseWeather(ForecastAdverseDays(start_week, end_week))

GreedyEndWeek(start_week, duration) == start_week + duration - 1

GreedyWindowOk(cal, p, start_week) ==
    /\ GreedyCapacityFeasible(cal, p, start_week)
    /\ ~WeatherRejects(is_outdoor_project(ProjectCategory(p.project_id), p.required_crew_type),
                       start_week, GreedyEndWeek(start_week, p.estimated_weeks))

\* The scheduler's loop over the approved projects (already in priority
\* order; sorted() is stable), from position k on.  `queried` collects the
\* windows <<project_id, start_week>> for which the weather service is
\* called: for an outdoor project, every capacity-feasible window the scan
\* reaches.
RECURSIVE GreedyLoop(_, _, _, _, _, _, _)
GreedyLoop(projects, k, cal, tks, audit, infeasible, queried) ==
    IF k > Len(projects)
    THEN [calendar |-> cal, tasks |-> tks, audit_log |-> audit, infeasible |-> infeasible,
          queried |-> queried]
    ELSE LET p == projects[k]
             is_outdoor == is_outdoor_project(ProjectCategory(p.project_id),
                                              p.required_crew_type)
             fits == {s \in GreedyStartWeeks(p.estimated_weeks) : GreedyWindowOk(cal, p, s)}
             Calls(last) == IF is_outdoor
                            THEN {<<p.project_id, s>> :
                                     s \in {t \in GreedyStartWeeks(p.estimated_weeks) :
                                               t <= last /\ GreedyCapacityFeasible(cal, p, t)}}
                            ELSE {}
         IN  IF fits = {}
             THEN GreedyLoop(projects, k + 1, cal, tks, audit,
                             Append(infeasible, p.project_id),
                             queried \cup Calls(planning_horizon_weeks))
             ELSE LET start_week == CHOOSE s \in fits : \A t \in fits : s <= t
                      end_week == GreedyEndWeek(start_week, p.estimated_weeks)
                  IN  GreedyLoop(projects, k + 1,
                          AllocateWeeks(cal, p.required_crew_type, start_week,
                                        start_week + p.estimated_weeks - 1, p.crew_size),
                          Append(tks, TaskRow(p.project_id, start_week, end_week,
                                              p.required_crew_type, p.crew_size)),
                          Append(audit, AuditRow("TASK_SCHEDULED", "scheduling_agent",
                                                 p.project_id)),
                          infeasible,
                          queried \cup Calls(start_week))

\* The calls of get_forecast_for_weeks a run of run_greedy_scheduler makes
\* from the present store.
OracleQueries ==
    GreedyLoop(get_approved_projects, 1, calendar, tasks, audit_log, <<>>, {}).queried

\* check_schedule_feasibility: the over-allocated calendar entries.
check_schedule_feasibility ==
    {e \in DOMAIN calendar : calendar[e].allocated > calendar[e].capacity}

(***************************************************************************)
(* Initial states.                                                         *)
(***************************************************************************)
Budgets == {75000000, 130000000}
Costs == {800000, 4000000, 45000000, 60000000}

\* Signal rows that make a candidate: score 8 (a mandate), 3 (a bare legal
\* mandate) and 5 (no mandate).
HighSignal ==
    [population_affected |-> 450000, complaint_count |-> 1200,
     safety_risk |-> 1, legal_mandate |-> 1, urgency_days |-> 7]

SignalShapes ==
    { HighSignal,
      [population_affected |-> 20000, complaint_count |-> 10,
       safety_risk |-> 0, legal_mandate |-> 1, urgency_days |-> 14],
      [population_affected |-> 600000, complaint_count |-> 900,
       safety_risk |-> 1, legal_mandate |-> 0, urgency_days |-> 30] }

\* A signal row below the threshold: score 2, exactly on both inclusive
\* thresholds.
LowSignal ==
    [population_affected |-> 100000, complaint_count |-> 75,
     safety_risk |-> 0, legal_mandate |-> 0, urgency_days |-> 60]

\* An issue without an issue_signals row: the LEFT JOIN yields NULL columns.
NoSignal ==
    [population_affected |-> NULL, complaint_count |-> NULL,
     safety_risk |-> NULL, legal_mandate |-> NULL, urgency_days |-> NULL]

Issue(status, category, sig, cost) ==
    [status |-> status, category |-> category,
     population_affected |-> sig.population_affected,
     complaint_count |-> sig.complaint_count,
     safety_risk |-> sig.safety_risk,
     legal_mandate |-> sig.legal_mandate,
     estimated_cost |-> cost,
     urgency_days |-> sig.urgency_days]

IssueProfiles ==
    {Issue("OPEN", "Water", sig, cost) : sig \in SignalShapes, cost \in Costs}
    \cup {Issue("OPEN", "Health", HighSignal, cost) : cost \in Costs}
    \cup {Issue("OPEN", "Water", LowSignal, 45000000),
          Issue("OPEN", "Water", NoSignal, NULL),
          Issue("CLOSED", "Water", LowSignal, 45000000)}

\* seed_sample_data: 12 weeks of every resource type, nothing allocated.
SeedCalendar ==
    [e \in ResourceTypes \X (1..CalendarWeeks) |->
        [capacity |-> SeedCapacity(e[1]), allocated |-> 0]]

\* Issues 1 and 2 of seed_sample_data.
SeedIssues ==
    <<[status |-> "OPEN", category |-> "Water", population_affected |-> 450000,
       complaint_count |-> 1200, safety_risk |-> 1, legal_mandate |-> 1,
       estimated_cost |-> 45000000, urgency_days |-> 7],
      [status |-> "OPEN", category |-> "Health", population_affected |-> 180000,
       complaint_count |-> 300, safety_risk |-> 1, legal_mandate |-> 1,
       estimated_cost |-> 12000000, urgency_days |-> 14]>>

Return(op, status, value) == [op |-> op, status |-> status, value |-> value]

\* No run has been recorded yet.
NoRun == [budget |-> 0, pc |-> "idle", candidates |-> <<>>,
          decisions |-> <<>>, tasks |-> <<>>, calendar |-> SeedCalendar]

\* No allocate_resource call is between its read and its UPDATE.
NoneInFlight == {}

EmptyOutputs ==
    /\ candidates = <<>>
    /\ seq_project_id = 0
    /\ decisions = <<>>
    /\ calendar = SeedCalendar
    /\ tasks = <<>>
    /\ audit_log = <<>>
    /\ pc = "idle"
    /\ calls = [pipeline |-> 0, tool |-> 0]
    /\ ret = Return("init", "ok", 0)
    /\ last_run = NoRun
    /\ inflight = NoneInFlight

\* The stages are run by the Runner shim of src/agents.
InitShim ==
    /\ driver = "shim"
    /\ issues \in [1..MaxIssues -> IssueProfiles]
    /\ quarterly_budget \in Budgets
    /\ oracle_fails = {}
    /\ oracle_bare = {}
    /\ EmptyOutputs

\* The stages are run by an agent runtime that calls the tools.
InitSdk ==
    /\ driver = "sdk"
    /\ issues = SeedIssues
    /\ quarterly_budget = 75000000
    /\ oracle_fails = {}
    /\ oracle_bare = {}
    /\ EmptyOutputs

Init == InitShim \/ InitSdk

(***************************************************************************)
(* Pipeline actions.                                                       *)
(***************************************************************************)
\* What no stage and no tool writes: the inputs of a run, and the two
\* variables that only the service boundary and the context's allocation
\* steps write.
config == <<driver, issues, quarterly_budget, oracle_fails, oracle_bare, last_run, inflight>>

\* A reset that leaves the allocations in place.
ResetCalendarMut(cal) == cal

\* UPDATE resource_calendar SET allocated = 0
ResetCalendar(cal) == [e \in DOMAIN cal |-> [cal[e] EXCEPT !.allocated = 0]]

\* A reset that keeps the audit trail.
ClearAgentOutputsMut ==
    /\ pc \in {"idle", "done", "failed"}
    /\ calls.pipeline < MaxRuns
    /\ candidates' = <<>>
    /\ decisions' = <<>>
    /\ tasks' = <<>>
    /\ calendar' = ResetCalendar(calendar)
    /\ pc' = "formation"
    /\ calls' = [calls EXCEPT !.pipeline = @ + 1]
    /\ ret' = Return("clear_agent_outputs", "ok", 0)
    /\ UNCHANGED <<config, seq_project_id, audit_log>>

\* run_municipal_pipeline with reset_data: clear_agent_outputs, then stage 1.
\* DELETE keeps the AUTOINCREMENT high-water mark.
ClearAgentOutputs ==
    /\ pc \in {"idle", "done", "failed"}
    /\ calls.pipeline < MaxRuns
    /\ candidates' = <<>>
    /\ decisions' = <<>>
    /\ tasks' = <<>>
    /\ audit_log' = <<>>
    /\ calendar' = ResetCalendar(calendar)
    /\ pc' = "formation"
    /\ calls' = [calls EXCEPT !.pipeline = @ + 1]
    /\ ret' = Return("clear_agent_outputs", "ok", 0)
    /\ UNCHANGED <<config, seq_project_id>>

\* run_formation_stage -> Runner.run, Formation branch.
RunFormationStage ==
    /\ driver = "shim"
    /\ pc = "formation"
    /\ LET r == FormationLoop(get_open_issues, 1, candidates, seq_project_id)
       IN  /\ candidates' = r.cands
           /\ seq_project_id' = r.lastId
           /\ pc' = IF r.raised THEN "failed" ELSE "governance"
           /\ ret' = Return("formation", IF r.raised THEN "TypeError" ELSE "ok",
                            Len(r.cands) - Len(candidates))
    /\ UNCHANGED <<config, decisions, calendar, tasks, audit_log, calls>>

\* run_governance_stage -> Runner.run, Governance branch.
RunGovernanceStage ==
    /\ driver = "shim"
    /\ pc = "governance"
    /\ decisions' = GovernanceLoop(Prioritized(get_project_candidates), 1,
                                   quarterly_budget, 1, decisions)
    /\ pc' = "scheduling"
    /\ ret' = Return("governance", "ok", 0)
    /\ UNCHANGED <<config, candidates, seq_project_id, calendar, tasks, audit_log, calls>>

\* run_scheduling_stage -> Runner.run, Scheduling branch.
RunSchedulingStage ==
    /\ driver = "shim"
    /\ pc = "scheduling"
    /\ LET r == RunnerScheduleLoop(get_approved_projects, 1, calendar, tasks)
       IN  /\ calendar' = r.calendar
           /\ tasks' = r.tasks
           /\ ret' = Return("scheduling", "ok", Len(r.tasks) - Len(tasks))
    /\ pc' = "done"
    /\ UNCHANGED <<config, candidates, seq_project_id, decisions, audit_log, calls>>

(***************************************************************************)
(* Tool calls made by the agent of the running stage.                      *)
(***************************************************************************)
\* The arguments an agent passes to create_project_candidate.
ToolCandidateArgs ==
    { [issue_id |-> 1, estimated_cost |-> 45000000, estimated_weeks |-> 4,
       required_crew_type |-> "water_crew", crew_size |-> 2, risk_score |-> 8],
      [issue_id |-> 1, estimated_cost |-> 60000000, estimated_weeks |-> 8,
       required_crew_type |-> "water_crew", crew_size |-> 3, risk_score |-> 5],
      [issue_id |-> 2, estimated_cost |-> 12000000, estimated_weeks |-> 4,
       required_crew_type |-> "electrical_crew", crew_size |-> 2, risk_score |-> 8] }

ToolRanks == {1, 2}
\* (week, units) pairs passed to allocate_resource: one that fits, one above
\* the capacity, one for a week without a calendar entry.
ToolAllocations == {<<1, 2>>, <<1, 4>>, <<CalendarWeeks + 1, 2>>}

\* A tool call that any stage's agent may make.
ToolCallMut(stage) ==
    /\ driver = "sdk"
    /\ pc \in {"formation", "governance", "scheduling"}
    /\ calls.tool < MaxToolCalls
    /\ calls' = [calls EXCEPT !.tool = @ + 1]

\* A tool call by the agent of stage `stage`, within the call budget.
ToolCall(stage) ==
    /\ driver = "sdk"
    /\ pc = stage
    /\ calls.tool < MaxToolCalls
    /\ calls' = [calls EXCEPT !.tool = @ + 1]

\* The agent's run of a stage returns.
EndStage ==
    /\ driver = "sdk"
    /\ pc \in {"formation", "governance", "scheduling"}
    /\ pc' = CASE pc = "formation" -> "governance"
               [] pc = "governance" -> "scheduling"
               [] OTHER -> "done"
    /\ ret' = Return("stage", "ok", 0)
    /\ UNCHANGED <<config, candidates, seq_project_id, decisions, calendar, tasks,
                   audit_log, calls>>

\* formation_agent.calculate_risk_score(issue_id)
CalculateRiskScore(issue_id) ==
    /\ ToolCall("formation")
    /\ ret' = IF issue_id \notin DOMAIN issues
              THEN Return("calculate_risk_score", "not found", 0)
              ELSE IF ScoreRaises(issues[issue_id])
              THEN Return("calculate_risk_score", "TypeError", 0)
              ELSE Return("calculate_risk_score", "ok", compute_risk_score(issues[issue_id]))
    /\ UNCHANGED <<config, candidates, seq_project_id, decisions, calendar, tasks,
                   audit_log, pc>>

\* The row create_project_candidate inserts for its arguments.
ToolCandidateRow(pid, args) ==
    [project_id |-> pid,
     issue_id |-> args.issue_id,
     estimated_cost |-> args.estimated_cost,
     estimated_weeks |-> args.estimated_weeks,
     required_crew_type |-> args.required_crew_type,
     crew_size |-> args.crew_size,
     risk_score |-> args.risk_score]

\* formation_agent.create_project_candidate(...)
CreateProjectCandidate(args) ==
    /\ ToolCall("formation")
    /\ candidates' = Append(candidates, ToolCandidateRow(seq_project_id + 1, args))
    /\ seq_project_id' = seq_project_id + 1
    /\ audit_log' = Append(audit_log, AuditRow("PROJECT_CANDIDATE_CREATED",
                                               "formation_agent", seq_project_id + 1))
    /\ ret' = Return("create_project_candidate", "ok", seq_project_id + 1)
    /\ UNCHANGED <<config, decisions, calendar, tasks, pc>>

\* An approve_project that writes its audit entry before the budget check.
ApproveProjectMut(project_id, priority_rank) ==
    /\ ToolCall("governance")
    /\ IF project_id \notin CandidateIds
       THEN /\ ret' = Return("approve_project", "not found",
                             [project_id |-> project_id, priority_rank |-> priority_rank])
            /\ UNCHANGED <<decisions, audit_log>>
       ELSE IF InsufficientBudget(AllocatedBudget, CandidateById(project_id).estimated_cost,
                                  quarterly_budget)
       THEN /\ ret' = Return("approve_project", "insufficient budget",
                             [project_id |-> project_id, priority_rank |-> priority_rank])
            /\ audit_log' = Append(audit_log, AuditRow("PROJECT_APPROVED",
                                                       "governance_agent", project_id))
            /\ UNCHANGED decisions
       ELSE /\ decisions' = Append(decisions,
                                   ToolApprovedRow(CandidateById(project_id), priority_rank))
            /\ audit_log' = Append(audit_log, AuditRow("PROJECT_APPROVED",
                                                       "governance_agent", project_id))
            /\ ret' = Return("approve_project", "ok",
                             [project_id |-> project_id, priority_rank |-> priority_rank])
    /\ UNCHANGED <<config, candidates, seq_project_id, calendar, tasks, pc>>

\* governance_agent.approve_project(project_id, priority_rank, rationale)
ApproveProject(project_id, priority_rank) ==
    /\ ToolCall("governance")
    /\ IF project_id \notin CandidateIds
       THEN /\ ret' = Return("approve_project", "not found",
                             [project_id |-> project_id, priority_rank |-> priority_rank])
            /\ UNCHANGED <<decisions, audit_log>>
       ELSE IF InsufficientBudget(AllocatedBudget, CandidateById(project_id).estimated_cost,
                                  quarterly_budget)
       THEN /\ ret' = Return("approve_project", "insufficient budget",
                             [project_id |-> project_id, priority_rank |-> priority_rank])
            /\ UNCHANGED <<decisions, audit_log>>
       ELSE /\ decisions' = Append(decisions,
                                   ToolApprovedRow(CandidateById(project_id), priority_rank))
            /\ audit_log' = Append(audit_log, AuditRow("PROJECT_APPROVED",
                                                       "governance_agent", project_id))
            /\ ret' = Return("approve_project", "ok",
                             [project_id |-> project_id, priority_rank |-> priority_rank])
    /\ UNCHANGED <<config, candidates, seq_project_id, calendar, tasks, pc>>

\* governance_agent.reject_project(project_id, rationale)
RejectProject(project_id) ==
    /\ ToolCall("governance")
    /\ IF project_id \notin CandidateIds
       THEN /\ ret' = Return("reject_project", "not found", 0)
            /\ UNCHANGED <<decisions, audit_log>>
       ELSE /\ decisions' = Append(decisions, ToolRejectedRow(CandidateById(project_id)))
            /\ audit_log' = Append(audit_log, AuditRow("PROJECT_REJECTED",
                                                       "governance_agent", project_id))
            /\ ret' = Return("reject_project", "ok", 0)
    /\ UNCHANGED <<config, candidates, seq_project_id, calendar, tasks, pc>>

\* scheduling_agent.run_greedy_scheduler()
RunGreedyScheduler ==
    /\ ToolCall("scheduling")
    /\ IF get_approved_projects = <<>>
       THEN /\ ret' = Return("run_greedy_scheduler", "no approved projects", 0)
            /\ UNCHANGED <<calendar, tasks, audit_log>>
       ELSE LET r == GreedyLoop(get_approved_projects, 1, calendar, tasks, audit_log, <<>>, {})
            IN  /\ calendar' = r.calendar
                /\ tasks' = r.tasks
                /\ audit_log' = r.audit_log
                /\ ret' = Return("run_greedy_scheduler", "ok", Len(r.infeasible))
    /\ UNCHANGED <<config, candidates, seq_project_id, decisions, pc>>

\* MunicipalContext.allocate_resource(resource_type, week, units)
AllocateResource(resource_type, week, units) ==
    /\ ToolCall("scheduling")
    /\ calendar' = allocate_resource(calendar, resource_type, week, units)
    /\ ret' = Return("allocate_resource",
                     IF AllocationAllowed(get_available_capacity(calendar, resource_type, week),
                                          units)
                     THEN "True" ELSE "False",
                     [resource_type |-> resource_type, week |-> week, units |-> units])
    /\ UNCHANGED <<config, candidates, seq_project_id, decisions, tasks, audit_log, pc>>

Next ==
    \/ ClearAgentOutputs
    \/ RunFormationStage
    \/ RunGovernanceStage
    \/ RunSchedulingStage
    \/ EndStage
    \/ \E issue_id \in 1..(MaxIssues + 1) : CalculateRiskScore(issue_id)
    \/ \E args \in ToolCandidateArgs : CreateProjectCandidate(args)
    \/ \E project_id \in 1..(seq_project_id + 1), priority_rank \in ToolRanks :
           ApproveProject(project_id, priority_rank)
    \/ \E project_id \in 1..(seq_project_id + 1) : RejectProject(project_id)
    \/ RunGreedyScheduler
    \/ \E a \in ToolAllocations : AllocateResource("water_crew", a[1], a[2])

Spec == Init /\ [][Next]_vars

(***************************************************************************)
(* Risk scoring on its own: one issue whose signal columns range over the  *)
(* values around the thresholds and over NULL, scored by the tool.         *)
(***************************************************************************)
ScorePopulations == {NULL, 0, 99999, 100000, 450000}
ScoreComplaints == {NULL, 0, 74, 75, 1200}
ScoreFlags == {NULL, 0, 1}

ScoreInit ==
    /\ driver = "sdk"
    /\ \E p \in ScorePopulations, c \in ScoreComplaints, s \in ScoreFlags, l \in ScoreFlags :
           issues = <<Issue("OPEN", "Water",
                            [population_affected |-> p, complaint_count |-> c,
                             safety_risk |-> s, legal_mandate |-> l, urgency_days |-> 7],
                            45000000)>>
    /\ quarterly_budget = 75000000
    /\ candidates = <<>>
    /\ seq_project_id = 0
    /\ decisions = <<>>
    /\ calendar = SeedCalendar
    /\ tasks = <<>>
    /\ audit_log = <<>>
    /\ pc = "formation"
    /\ calls = [pipeline |-> 1, tool |-> 0]
    /\ ret = Return("clear_agent_outputs", "ok", 0)
    /\ last_run = NoRun
    /\ inflight = NoneInFlight
    /\ oracle_fails = {}
    /\ oracle_bare = {}

ScoreNext == \E issue_id \in 1..(MaxIssues + 1) : CalculateRiskScore(issue_id)

SpecScore == ScoreInit /\ [][ScoreNext]_vars

(***************************************************************************)
(* Scheduling on its own: the store as the first two stages leave it, and  *)
(* a weather service that may raise.  With the shim the stages are the     *)
(* Runner's; otherwise the candidates and approvals are what               *)
(* create_project_candidate and approve_project have written.              *)
(***************************************************************************)
\* Arguments of create_project_candidate, with a two-week project next to
\* those of ToolCandidateArgs.
SchedCandidateArgs ==
    ToolCandidateArgs
    \cup { [issue_id |-> 1, estimated_cost |-> 4000000, estimated_weeks |-> 2,
            required_crew_type |-> "water_crew", crew_size |-> 2, risk_score |-> 8] }

\* The weather service answers every call, raises on the window starting in
\* week 3, or raises on every call.
OracleFailures == {{}, {3}, 1..planning_horizon_weeks}

\* Every forecast carries adverse_days, or the one for the window starting in
\* week 1 comes back without it.
OracleBare == {{}, {1}}

SchedInitShim ==
    /\ driver = "shim"
    /\ issues \in [1..MaxIssues -> IssueProfiles]
    /\ quarterly_budget \in Budgets
    /\ candidates = FormationLoop(get_open_issues, 1, <<>>, 0).cands
    /\ ~FormationLoop(get_open_issues, 1, <<>>, 0).raised
    /\ seq_project_id = Len(candidates)
    /\ decisions = GovernanceLoop(Prioritized(get_project_candidates), 1,
                                  quarterly_budget, 1, <<>>)
    /\ audit_log = <<>>
    /\ ret = Return("governance", "ok", 0)
    /\ oracle_fails = {}
    /\ oracle_bare = {}

SchedInitSdk ==
    /\ driver = "sdk"
    /\ issues = SeedIssues
    /\ quarterly_budget \in Budgets
    /\ \E n \in 1..MaxSchedProjects :
           \E args \in [1..n -> SchedCandidateArgs], ranks \in [1..n -> 1..n] :
               /\ SumSeq([i \in 1..n |-> args[i].estimated_cost]) <= quarterly_budget
               /\ candidates = [i \in 1..n |-> ToolCandidateRow(i, args[i])]
               /\ seq_project_id = n
               /\ decisions = [i \in 1..n |->
                                  ToolApprovedRow(ToolCandidateRow(i, args[i]), ranks[i])]
               /\ audit_log = [i \in 1..n |-> AuditRow("PROJECT_CANDIDATE_CREATED",
                                                       "formation_agent", i)]
                              \o [i \in 1..n |-> AuditRow("PROJECT_APPROVED",
                                                          "governance_agent", i)]
    /\ ret = Return("stage", "ok", 0)
    /\ oracle_fails \in OracleFailures
    /\ oracle_bare \in OracleBare
    /\ oracle_fails = {} \/ oracle_bare = {}

SchedInit ==
    /\ SchedInitShim \/ SchedInitSdk
    /\ calendar = SeedCalendar
    /\ tasks = <<>>
    /\ pc = "scheduling"
    /\ calls = [pipeline |-> 1, tool |-> 0]
    /\ last_run = NoRun
    /\ inflight = NoneInFlight

SchedNext ==
    \/ RunSchedulingStage
    \/ RunGreedyScheduler

SpecSched == SchedInit /\ [][SchedNext]_vars

(***************************************************************************)
(* The service boundary: POST /api/run-pipeline.                           *)
(***************************************************************************)
\* What the request carries for "budget": no JSON object at all (get_json
\* gives None or raises), no "budget" key or null, a JSON number, a JSON
\* string, a JSON list.
RequestBudgets ==
    { [type |-> "no_object", number |-> 0, text |-> ""],
      [type |-> "absent", number |-> 0, text |-> ""],
      [type |-> "list", number |-> 0, text |-> ""],
      [type |-> "number", number |-> 0, text |-> ""],
      [type |-> "number", number |-> -5000000, text |-> ""],
      [type |-> "number", number |-> 75000000, text |-> ""],
      [type |-> "string", number |-> 0, text |-> "abc"],
      [type |-> "string", number |-> 0, text |-> "nan"],
      [type |-> "string", number |-> 0, text |-> "130000000"] }

\* float(str) for the strings of RequestBudgets that float() parses.
FloatOfString == [s \in {"nan", "130000000"} |-> IF s = "nan" THEN NaN ELSE 130000000]

\* float(budget): TypeError for a list, ValueError for a string that is no
\* float literal.
float(budget) ==
    CASE budget.type = "number" -> [raises |-> FALSE, value |-> budget.number]
      [] budget.type = "string" /\ budget.text \in DOMAIN FloatOfString
             -> [raises |-> FALSE, value |-> FloatOfString[budget.text]]
      [] OTHER -> [raises |-> TRUE, value |-> 0]

\* `budget <= 0` on the float.
NotPositive(value) == value # NaN /\ value <= 0

\* The issue tables the service runs over.
ServiceIssueProfiles ==
    { Issue("OPEN", "Water", HighSignal, 45000000),
      Issue("OPEN", "Health", HighSignal, 60000000),
      Issue("OPEN", "Water", NoSignal, NULL) }

ServiceInit ==
    /\ driver = "shim"
    /\ issues \in [1..MaxIssues -> ServiceIssueProfiles]
    /\ quarterly_budget = 75000000
    /\ oracle_fails = {}
    /\ oracle_bare = {}
    /\ EmptyOutputs

\* Position of project_id among the candidate rows (0: no such row).
RowOf(project_id) ==
    IF project_id \in CandidateIds
    THEN CHOOSE i \in 1..Len(candidates) : candidates[i].project_id = project_id
    ELSE 0

\* What a run left in the store, with every project named by the position of
\* its candidate row instead of its project_id (the AUTOINCREMENT key goes on
\* counting across resets).
StoreOutputs ==
    [budget |-> quarterly_budget,
     pc |-> pc,
     candidates |-> [i \in 1..Len(candidates) |->
                        [issue_id |-> candidates[i].issue_id,
                         estimated_cost |-> candidates[i].estimated_cost,
                         estimated_weeks |-> candidates[i].estimated_weeks,
                         required_crew_type |-> candidates[i].required_crew_type,
                         crew_size |-> candidates[i].crew_size,
                         risk_score |-> candidates[i].risk_score]],
     decisions |-> [i \in 1..Len(decisions) |->
                       [project |-> RowOf(decisions[i].project_id),
                        decision |-> decisions[i].decision,
                        allocated_budget |-> decisions[i].allocated_budget,
                        priority_rank |-> decisions[i].priority_rank]],
     tasks |-> [i \in 1..Len(tasks) |->
                   [project |-> RowOf(tasks[i].project_id),
                    start_week |-> tasks[i].start_week,
                    end_week |-> tasks[i].end_week,
                    resource_type |-> tasks[i].resource_type,
                    crew_assigned |-> tasks[i].crew_assigned]],
     calendar |-> calendar]

\* run_pipeline up to the call of run_municipal_pipeline: validation, the
\* context with the request's budget, clear_agent_outputs.  The stages of the
\* run it then awaits are the stage actions; an exception of a stage is
\* answered with 500 by the outer handler.
RunPipelineRequest(budget) ==
    /\ driver = "shim"
    /\ pc \in {"idle", "done", "failed"}
    /\ calls.pipeline < MaxRequests
    /\ calls' = [calls EXCEPT !.pipeline = @ + 1]
    /\ IF budget.type = "no_object"
       THEN /\ ret' = Return("run_pipeline", "500", budget)
            /\ UNCHANGED <<quarterly_budget, candidates, decisions, tasks, audit_log,
                           calendar, pc, last_run>>
       ELSE IF \/ budget.type = "absent"
               \/ float(budget).raises
               \/ NotPositive(float(budget).value)
       THEN /\ ret' = Return("run_pipeline", "400", budget)
            /\ UNCHANGED <<quarterly_budget, candidates, decisions, tasks, audit_log,
                           calendar, pc, last_run>>
       ELSE /\ quarterly_budget' = float(budget).value
            /\ candidates' = <<>>
            /\ decisions' = <<>>
            /\ tasks' = <<>>
            /\ audit_log' = <<>>
            /\ calendar' = ResetCalendar(calendar)
            /\ pc' = "formation"
            /\ ret' = Return("run_pipeline", "running", budget)
            /\ last_run' = StoreOutputs
    /\ UNCHANGED <<driver, issues, oracle_fails, oracle_bare, seq_project_id, inflight>>

ServiceNext ==
    \/ \E budget \in RequestBudgets : RunPipelineRequest(budget)
    \/ RunFormationStage
    \/ RunGovernanceStage
    \/ RunSchedulingStage

SpecService == ServiceInit /\ [][ServiceNext]_vars

(***************************************************************************)
(* Two requests in their scheduling stage at once.  The development server *)
(* handles each request in its own thread; every query and every UPDATE    *)
(* of the context opens, commits and closes its own connection, so an      *)
(* allocate_resource call is two separate statements on the store.         *)
(***************************************************************************)
Threads == {1, 2}
ConcurrentWeeks == {1, 2}
ConcurrentUnits == {1, 2, 3}

ConcurrentInit ==
    /\ driver = "shim"
    /\ issues = SeedIssues
    /\ quarterly_budget = 75000000
    /\ oracle_fails = {}
    /\ oracle_bare = {}
    /\ candidates = <<>>
    /\ seq_project_id = 0
    /\ decisions = <<>>
    /\ calendar = SeedCalendar
    /\ tasks = <<>>
    /\ audit_log = <<>>
    /\ pc = "scheduling"
    /\ calls = [pipeline |-> 2, tool |-> 0]
    /\ ret = Return("init", "ok", 0)
    /\ last_run = NoRun
    /\ inflight = NoneInFlight

\* allocate_resource, first statement: available = get_available_capacity;
\* `return False` when the units do not fit.
AllocateRead(thread, resource_type, week, units) ==
    /\ calls.tool < MaxAllocations
    /\ \A c \in inflight : c.thread # thread
    /\ calls' = [calls EXCEPT !.tool = @ + 1]
    /\ IF AllocationAllowed(get_available_capacity(calendar, resource_type, week), units)
       THEN /\ inflight' = inflight \cup {[thread |-> thread, resource_type |-> resource_type,
                                           week |-> week, units |-> units]}
            /\ ret' = Return("allocate_resource", "checked", thread)
       ELSE /\ inflight' = inflight
            /\ ret' = Return("allocate_resource", "False", thread)
    /\ UNCHANGED <<driver, issues, quarterly_budget, oracle_fails, oracle_bare, last_run, candidates,
                   seq_project_id, decisions, calendar, tasks, audit_log, pc>>

\* allocate_resource, second statement: UPDATE resource_calendar
\* SET allocated = allocated + units; `return True`.
AllocateUpdate(thread) ==
    /\ \E c \in inflight :
           /\ c.thread = thread
           /\ calendar' = [calendar EXCEPT ![<<c.resource_type, c.week>>].allocated
                                               = @ + c.units]
           /\ inflight' = inflight \ {c}
    /\ ret' = Return("allocate_resource", "True", thread)
    /\ UNCHANGED <<driver, issues, quarterly_budget, oracle_fails, oracle_bare, last_run, candidates,
                   seq_project_id, decisions, tasks, audit_log, pc, calls>>

ConcurrentNext ==
    \/ \E thread \in Threads, week \in ConcurrentWeeks, units \in ConcurrentUnits :
           AllocateRead(thread, "water_crew", week, units)
    \/ \E thread \in Threads : AllocateUpdate(thread)

SpecConcurrent == ConcurrentInit /\ [][ConcurrentNext]_vars

(***************************************************************************)
(* The validators of validation.py.  A finding is a record; the report is  *)
(* the set of findings of each validator.                                  *)
(***************************************************************************)
Finding(kind, project_id, resource_type, week) ==
    [kind |-> kind, project_id |-> project_id, resource_type |-> resource_type, week |-> week]

\* SELECT st.*, pc.title FROM schedule_tasks st JOIN project_candidates pc
\* ORDER BY st.start_week, st.project_id
get_schedule_tasks ==
    LET joined == SelectSeq(tasks, LAMBDA t : t.project_id \in CandidateIds)
        n == Len(joined)
        Before(j, i) == \/ joined[j].start_week < joined[i].start_week
                        \/ /\ joined[j].start_week = joined[i].start_week
                           /\ \/ joined[j].project_id < joined[i].project_id
                              \/ (joined[j].project_id = joined[i].project_id /\ j < i)
        Pos(i) == 1 + Cardinality({j \in (1..n) \ {i} : Before(j, i)})
    IN  [k \in 1..n |-> joined[CHOOSE i \in 1..n : Pos(i) = k]]

\* validate_project_candidates
validate_project_candidates ==
    UNION { {Finding("Invalid cost", c.project_id, "", 0) : x \in {1} \cap
                 (IF c.estimated_cost < 0 THEN {1} ELSE {})}
            \cup {Finding("Suspicious cost", c.project_id, "", 0) : x \in {1} \cap
                 (IF quarterly_budget # NaN /\ c.estimated_cost > quarterly_budget * 10
                  THEN {1} ELSE {})}
            \cup {Finding("Invalid duration", c.project_id, "", 0) : x \in {1} \cap
                 (IF c.estimated_weeks < 1 THEN {1} ELSE {})}
            \cup {Finding("Suspicious duration", c.project_id, "", 0) : x \in {1} \cap
                 (IF c.estimated_weeks > planning_horizon_weeks * 2 THEN {1} ELSE {})}
            \cup {Finding("Invalid risk score", c.project_id, "", 0) : x \in {1} \cap
                 (IF c.risk_score < 0 \/ c.risk_score > 10 THEN {1} ELSE {})}
            : c \in {candidates[i] : i \in 1..Len(candidates)} }

\* The APPROVED rows of get_portfolio_decisions().
ApprovedDecisions == SelectSeq(JoinedDecisions, LAMBDA d : d.decision = "APPROVED")

\* validate_budget_allocation
validate_budget_allocation ==
    LET approved == {ApprovedDecisions[i] : i \in 1..Len(ApprovedDecisions)}
    IN  {Finding("Budget violation", 0, "", 0) : x \in {1} \cap
             (IF quarterly_budget # NaN /\ AllocatedBudget > quarterly_budget
              THEN {1} ELSE {})}
        \cup {Finding("Invalid allocation", d.project_id, "", 0) :
                  d \in {a \in approved : a.allocated_budget < 0}}
        \cup {Finding("Invalid priority", d.project_id, "", 0) :
                  d \in {a \in approved : a.priority_rank = NULL \/ a.priority_rank < 1}}

\* project_lookup = {p["project_id"]: p for p in projects}: a later row of
\* get_approved_projects() replaces an earlier one with the same project_id.
ProjectLookup(project_id) ==
    LET ks == {k \in 1..Len(get_approved_projects) :
                   get_approved_projects[k].project_id = project_id}
    IN  get_approved_projects[CHOOSE k \in ks : \A j \in ks : j <= k]

\* validate_schedule_feasibility
validate_schedule_feasibility ==
    LET ts == {get_schedule_tasks[i] : i \in 1..Len(get_schedule_tasks)}
        approved_ids == {get_approved_projects[k].project_id :
                             k \in 1..Len(get_approved_projects)}
        known == {t \in ts : t.project_id \in approved_ids}
    IN  {Finding("Orphaned task", t.project_id, "", 0) : t \in ts \ known}
        \cup {Finding("Invalid schedule", t.project_id, "", 0) :
                  t \in {u \in known : u.start_week < 1 \/ u.end_week < u.start_week}}
        \cup {Finding("Duration mismatch", t.project_id, "", 0) :
                  t \in {u \in known : u.end_week - u.start_week + 1
                                           # ProjectLookup(u.project_id).estimated_weeks}}
        \cup UNION { {Finding("Resource violation", t.project_id, t.resource_type, week) :
                          week \in {w \in t.start_week..t.end_week :
                                        get_available_capacity(calendar, t.resource_type, w)
                                            < t.crew_assigned}}
                     : t \in known }

\* sum() over the allocated budgets raises TypeError on a NULL.
ValidatorRaises ==
    \E i \in 1..Len(ApprovedDecisions) : ApprovedDecisions[i].allocated_budget = NULL

\* A validator that raises ValidationError when there is a finding.
ValidateCompletePipelineMut ==
    /\ ret' = Return("validate_complete_pipeline",
                     IF validate_schedule_feasibility # {} THEN "ValidationError" ELSE "ok",
                     [project_candidates |-> validate_project_candidates,
                      budget_allocation |-> validate_budget_allocation,
                      schedule_feasibility |-> validate_schedule_feasibility])
    /\ UNCHANGED <<config, candidates, seq_project_id, decisions, calendar, tasks,
                   audit_log, pc, calls>>

\* validate_complete_pipeline(context)
ValidateCompletePipeline ==
    /\ ret' = IF ValidatorRaises
              THEN Return("validate_complete_pipeline", "TypeError",
                          [project_candidates |-> {}, budget_allocation |-> {},
                           schedule_feasibility |-> {}])
              ELSE Return("validate_complete_pipeline", "ok",
                          [project_candidates |-> validate_project_candidates,
                           budget_allocation |-> validate_budget_allocation,
                           schedule_feasibility |-> validate_schedule_feasibility])
    /\ UNCHANGED <<config, candidates, seq_project_id, decisions, calendar, tasks,
                   audit_log, pc, calls>>

\* The validator run at any point of the scheduling stage, after either scheduler.
ValidateNext ==
    \/ RunSchedulingStage
    \/ RunGreedyScheduler
    \/ ValidateCompletePipeline

\* The validator does not call the weather service: the stores it is run on
\* are those of SchedInit with a service that answers every call in full.
ValidateInit ==
    /\ SchedInit
    /\ oracle_fails = {}
    /\ oracle_bare = {}

SpecValidate == ValidateInit /\ [][ValidateNext]_vars

(***************************************************************************)
(* run_interactive_stage: one stage at a time, in any order, on the store  *)
(* as it is (no reset).                                                    *)
(***************************************************************************)
InteractiveInit ==
    /\ driver = "shim"
    /\ issues \in [1..MaxIssues -> ServiceIssueProfiles]
    /\ quarterly_budget \in Budgets
    /\ oracle_fails = {}
    /\ oracle_bare = {}
    /\ EmptyOutputs

\* run_interactive_stage(stage, context) without a custom prompt: the stage
\* runner, i.e. the Runner branch of that stage.
RunInteractiveStage(stage) ==
    /\ driver = "shim"
    /\ pc = "idle"
    /\ calls.tool < MaxStageRuns
    /\ calls' = [calls EXCEPT !.tool = @ + 1]
    /\ CASE stage = "formation" ->
              LET r == FormationLoop(get_open_issues, 1, candidates, seq_project_id)
              IN  /\ candidates' = r.cands
                  /\ seq_project_id' = r.lastId
                  /\ ret' = Return("formation", IF r.raised THEN "TypeError" ELSE "ok",
                                   Len(r.cands) - Len(candidates))
                  /\ UNCHANGED <<decisions, calendar, tasks>>
         [] stage = "governance" ->
              /\ decisions' = GovernanceLoop(Prioritized(get_project_candidates), 1,
                                             quarterly_budget, 1, decisions)
              /\ ret' = Return("governance", "ok", 0)
              /\ UNCHANGED <<candidates, seq_project_id, calendar, tasks>>
         [] OTHER ->
              LET r == RunnerScheduleLoop(get_approved_projects, 1, calendar, tasks)
              IN  /\ calendar' = r.calendar
                  /\ tasks' = r.tasks
                  /\ ret' = Return("scheduling", "ok", Len(r.tasks) - Len(tasks))
                  /\ UNCHANGED <<candidates, seq_project_id, decisions>>
    /\ UNCHANGED <<config, audit_log, pc>>

InteractiveNext ==
    \E stage \in {"formation", "governance", "scheduling"} : RunInteractiveStage(stage)

SpecInteractive == InteractiveInit /\ [][InteractiveNext]_vars

(***************************************************************************)
(* governance_agent.run_knapsack_optimization: the recommendation tool of  *)
(* the governance agent.  It reads the store and returns a text; the       *)
(* returned record keeps what the text is built from.                      *)
(***************************************************************************)
\* issue.get("legal_mandate", 0) if issue else 0, with issue the row of
\* get_issue_by_id(c["issue_id"]).
LegalMandate(c) ==
    IF c.issue_id \in DOMAIN issues THEN issues[c.issue_id].legal_mandate ELSE 0

\* mandates = [c for c in enriched if c["legal_mandate"]]
Mandates(enriched) == SelectSeq(enriched, LAMBDA c : Truthy(LegalMandate(c)))

KnapsackFitsMut(cost, remaining_budget) == TRUE

\* c["estimated_cost"] <= remaining_budget
KnapsackFits(cost, remaining_budget) == cost <= remaining_budget

KnapsackDeductMut(remaining_budget, cost) == remaining_budget + cost

\* remaining_budget -= c["estimated_cost"]
KnapsackDeduct(remaining_budget, cost) == remaining_budget - cost

\* One selection loop (the mandates loop and the greedy loop have the same
\* body), from position k on.
RECURSIVE KnapsackSelect(_, _, _, _)
KnapsackSelect(cands, k, selected, remaining_budget) ==
    IF k > Len(cands)
    THEN [selected |-> selected, remaining_budget |-> remaining_budget]
    ELSE IF KnapsackFits(cands[k].estimated_cost, remaining_budget)
         THEN KnapsackSelect(cands, k + 1, Append(selected, cands[k]),
                             KnapsackDeduct(remaining_budget, cands[k].estimated_cost))
         ELSE KnapsackSelect(cands, k + 1, selected, remaining_budget)

\* [c for c in enriched if c["project_id"] not in already_selected_ids]
RemainingCandidates(enriched, selected) ==
    SelectSeq(enriched, LAMBDA c : \A i \in 1..Len(selected) :
                                       selected[i].project_id # c.project_id)

\* c["risk_score"] / (c["estimated_cost"] / 1_000_000) divides by 0.0 for a
\* candidate of cost 0.
ValueDensityRaises(cands) == \E i \in 1..Len(cands) : cands[i].estimated_cost = 0

\* value_density of a above that of b, compared exactly by
\* cross-multiplication (both costs are positive where this is used).
ValueDensityGreater(a, b) ==
    a.risk_score * b.estimated_cost > b.risk_score * a.estimated_cost

\* remaining_candidates.sort(key=value_density, reverse=True): descending,
\* equal keys in their original order.
SortByValueDensity(cands) ==
    LET n == Len(cands)
        Before(j, i) == \/ ValueDensityGreater(cands[j], cands[i])
                        \/ (~ValueDensityGreater(cands[i], cands[j]) /\ j < i)
        Pos(i) == 1 + Cardinality({j \in (1..n) \ {i} : Before(j, i)})
    IN  [k \in 1..n |-> cands[CHOOSE i \in 1..n : Pos(i) = k]]

ProjectIds(rows) == [i \in 1..Len(rows) |-> rows[i].project_id]

\* The body of run_knapsack_optimization.  `mandatory` is what phase 1 has
\* selected; a run that raises in phase 2 returns nothing else.
run_knapsack_optimization(must_include_legal_mandates) ==
    LET enriched == get_project_candidates
        phase1 == IF must_include_legal_mandates
                  THEN KnapsackSelect(Mandates(enriched), 1, <<>>, quarterly_budget)
                  ELSE [selected |-> <<>>, remaining_budget |-> quarterly_budget]
        remaining_candidates == RemainingCandidates(enriched, phase1.selected)
        phase2 == KnapsackSelect(SortByValueDensity(remaining_candidates), 1,
                                 phase1.selected, phase1.remaining_budget)
        Result(status, selected, rejected_ids, remaining_budget) ==
            [status |-> status,
             must_include_legal_mandates |-> must_include_legal_mandates,
             mandatory |-> ProjectIds(phase1.selected),
             selected |-> selected,
             rejected_ids |-> rejected_ids,
             remaining_budget |-> remaining_budget]
    IN  IF enriched = <<>>
        THEN Result("no candidates", <<>>, <<>>, quarterly_budget)
        ELSE IF ValueDensityRaises(remaining_candidates)
        THEN Result("ZeroDivisionError", <<>>, <<>>, phase1.remaining_budget)
        ELSE Result("ok", ProjectIds(phase2.selected),
                    ProjectIds(RemainingCandidates(enriched, phase2.selected)),
                    phase2.remaining_budget)

\* A call of the tool by the governance agent.
RunKnapsackOptimization(must_include_legal_mandates) ==
    /\ ToolCall("governance")
    /\ LET r == run_knapsack_optimization(must_include_legal_mandates)
       IN  ret' = Return("run_knapsack_optimization", r.status, r)
    /\ UNCHANGED <<config, candidates, seq_project_id, decisions, calendar, tasks,
                   audit_log, pc>>

\* Costs and scores of the candidates in the store when the allocation
\* starts: a zero cost (an issue without a cost), one that fits either
\* budget, and one above the smaller budget.
KnapsackCosts == {0, 40000000, 80000000}
KnapsackRisks == {3, 8}

\* Seed issues 1 (a legal mandate) and 3 (none).
KnapsackIssues ==
    << Issue("OPEN", "Water", HighSignal, 45000000),
       Issue("OPEN", "Disaster Management",
             [population_affected |-> 600000, complaint_count |-> 900,
              safety_risk |-> 1, legal_mandate |-> 0, urgency_days |-> 30],
             60000000) >>

KnapsackCandidateArgs ==
    { [issue_id |-> i, estimated_cost |-> cost, estimated_weeks |-> 2,
       required_crew_type |-> "water_crew", crew_size |-> 2, risk_score |-> risk] :
      i \in DOMAIN KnapsackIssues, cost \in KnapsackCosts, risk \in KnapsackRisks }

\* The store at the start of the allocation stage, under either driver.
KnapsackInit ==
    /\ driver \in {"shim", "sdk"}
    /\ issues = KnapsackIssues
    /\ quarterly_budget \in Budgets
    /\ \E n \in 1..MaxKnapsackCandidates :
           \E args \in [1..n -> KnapsackCandidateArgs] :
               /\ candidates = [i \in 1..n |-> ToolCandidateRow(i, args[i])]
               /\ seq_project_id = n
               /\ audit_log = [i \in 1..n |-> AuditRow("PROJECT_CANDIDATE_CREATED",
                                                       "formation_agent", i)]
    /\ decisions = <<>>
    /\ calendar = SeedCalendar
    /\ tasks = <<>>
    /\ pc = "governance"
    /\ calls = [pipeline |-> 1, tool |-> 0]
    /\ ret = Return("stage", "ok", 0)
    /\ oracle_fails = {}
    /\ oracle_bare = {}
    /\ last_run = NoRun
    /\ inflight = NoneInFlight

KnapsackNext ==
    \/ \E flag \in BOOLEAN : RunKnapsackOptimization(flag)
    \/ RunGovernanceStage

SpecKnapsack == KnapsackInit /\ [][KnapsackNext]_vars

(***************************************************************************)
(* run_greedy_scheduler on projects of either crew type whose issue is     *)
(* OPEN or CLOSED (issues are created and closed outside the pipeline).    *)
(***************************************************************************)
\* Issue 1 (Water), OPEN or CLOSED, and as issue 2 either the Health issue
\* of the seed data or an open Infrastructure issue.
OutdoorIssues ==
    { << Issue(status, "Water", HighSignal, 45000000), second >> :
      status \in {"OPEN", "CLOSED"},
      second \in {SeedIssues[2], Issue("OPEN", "Infrastructure", HighSignal, 4000000)} }

\* Arguments of create_project_candidate: the crew type is the caller's
\* choice and need not be the one CREW_MAPPING gives for the category.
OutdoorCandidateArgs ==
    { [issue_id |-> i, estimated_cost |-> 4000000, estimated_weeks |-> weeks,
       required_crew_type |-> crew, crew_size |-> 2, risk_score |-> 8] :
      i \in {1, 2}, weeks \in {2, 4}, crew \in {"water_crew", "electrical_crew"} }

OutdoorInit ==
    /\ driver = "sdk"
    /\ issues \in OutdoorIssues
    /\ quarterly_budget = 130000000
    /\ \E n \in 1..MaxSchedProjects :
           \E args \in [1..n -> OutdoorCandidateArgs] :
               /\ candidates = [i \in 1..n |-> ToolCandidateRow(i, args[i])]
               /\ seq_project_id = n
               /\ decisions = [i \in 1..n |->
                                  ToolApprovedRow(ToolCandidateRow(i, args[i]), i)]
               /\ audit_log = [i \in 1..n |-> AuditRow("PROJECT_CANDIDATE_CREATED",
                                                       "formation_agent", i)]
                              \o [i \in 1..n |-> AuditRow("PROJECT_APPROVED",
                                                          "governance_agent", i)]
    /\ ret = Return("stage", "ok", 0)
    /\ oracle_fails \in OracleFailures
    /\ oracle_bare \in OracleBare
    /\ oracle_fails = {} \/ oracle_bare = {}
    /\ calendar = SeedCalendar
    /\ tasks = <<>>
    /\ pc = "scheduling"
    /\ calls = [pipeline |-> 1, tool |-> 0]
    /\ last_run = NoRun
    /\ inflight = NoneInFlight

OutdoorNext == RunGreedyScheduler

SpecOutdoor == OutdoorInit /\ [][OutdoorNext]_vars

(***************************************************************************)
(* A reset of a store that earlier stages have filled: the database file   *)
(* outlives the process, so run_municipal_pipeline(reset_data=True) may    *)
(* find candidates, decisions, audit entries and, once the scheduling      *)
(* stage has run, tasks and allocations.                                   *)
(***************************************************************************)
ResetInit ==
    /\ \/ /\ issues \in [1..MaxIssues -> ServiceIssueProfiles]
          /\ quarterly_budget = 75000000
          /\ SchedInitShim
       \/ /\ SchedInitSdk
          /\ quarterly_budget = 75000000
          /\ oracle_fails = {}
          /\ oracle_bare = {}
          /\ \A i \in 1..Len(decisions) : decisions[i].priority_rank = i
    /\ calendar = SeedCalendar
    /\ tasks = <<>>
    /\ pc = "scheduling"
    /\ calls = [pipeline |-> 0, tool |-> 0]
    /\ last_run = NoRun
    /\ inflight = NoneInFlight

ResetNext ==
    \/ ClearAgentOutputs
    \/ RunFormationStage
    \/ RunGovernanceStage
    \/ RunSchedulingStage
    \/ EndStage
    \/ RunGreedyScheduler
    \/ \E a \in ToolAllocations : AllocateResource("water_crew", a[1], a[2])

SpecReset == ResetInit /\ [][ResetNext]_vars

(***************************************************************************)
(* formation_agent.estimate_project_resources and the Runner's Formation   *)
(* branch side by side, on costs at and around the tier thresholds.        *)
(***************************************************************************)
\* The tiers of estimate_project_resources, as the tool writes them.
estimate_project_resources(category, estimated_cost) ==
    LET tier == IF estimated_cost >= 50000000 THEN [weeks |-> 8, crew_size |-> 3]
                ELSE IF estimated_cost >= 10000000 THEN [weeks |-> 4, crew_size |-> 2]
                ELSE IF estimated_cost >= 1000000 THEN [weeks |-> 2, crew_size |-> 2]
                ELSE [weeks |-> 1, crew_size |-> 1]
    IN  [crew_type |-> get_crew_type(category), weeks |-> tier.weeks,
         crew_size |-> tier.crew_size, estimated_cost |-> estimated_cost]

\* A call of the tool by the formation agent.
EstimateProjectResources(category, estimated_cost) ==
    /\ ToolCall("formation")
    /\ ret' = Return("estimate_project_resources", "ok",
                     estimate_project_resources(category, estimated_cost))
    /\ UNCHANGED <<config, candidates, seq_project_id, decisions, calendar, tasks,
                   audit_log, pc>>

\* Costs on both sides of every threshold, and none.
EstimateCosts == {0, 999999, 1000000, 9999999, 10000000, 49999999, 50000000, 60000000}

EstimateInit ==
    /\ driver \in {"shim", "sdk"}
    /\ issues \in [1..MaxIssues ->
                     {Issue("OPEN", "Water", HighSignal, cost) : cost \in EstimateCosts \cup {NULL}}]
    /\ quarterly_budget = 75000000
    /\ oracle_fails = {}
    /\ oracle_bare = {}
    /\ candidates = <<>>
    /\ seq_project_id = 0
    /\ decisions = <<>>
    /\ calendar = SeedCalendar
    /\ tasks = <<>>
    /\ audit_log = <<>>
    /\ last_run = NoRun
    /\ inflight = NoneInFlight
    /\ pc = "formation"
    /\ calls = [pipeline |-> 1, tool |-> 0]
    /\ ret = Return("stage", "ok", 0)

EstimateNext ==
    \/ RunFormationStage
    \/ \E cost \in EstimateCosts : EstimateProjectResources("Water", cost)

SpecEstimate == EstimateInit /\ [][EstimateNext]_vars

(***************************************************************************)
(* Properties.                                                             *)
(***************************************************************************)
\* sum(allocated_budget) over every APPROVED row of portfolio_decisions.
ApprovedTotal ==
    LET approved == SelectSeq(decisions, LAMBDA d : d.decision = "APPROVED")
    IN  SumSeq([i \in 1..Len(approved) |-> approved[i].allocated_budget])

C2_CalendarInvariant ==
    /\ \A e \in DOMAIN calendar : calendar[e].allocated <= calendar[e].capacity
    /\ check_schedule_feasibility = {}

\* After a scheduling run placed a task, allocate_resource refused a request
\* above the remaining capacity.
C2_Witness ==
    /\ tasks # <<>>
    /\ ret.op = "allocate_resource"
    /\ ret.status = "False"
    /\ \E e \in DOMAIN calendar : calendar[e].allocated > 0

\* C3 (duration law): every persisted schedule task references an existing
\* project and end_week - start_week + 1 equals that project's estimated_weeks.
C3_DurationLaw ==
    \A i \in 1..Len(tasks) :
        /\ tasks[i].project_id \in CandidateIds
        /\ tasks[i].end_week - tasks[i].start_week + 1
               = CandidateById(tasks[i].project_id).estimated_weeks

\* run_greedy_scheduler has placed an eight-week project.
C3_Witness ==
    /\ driver = "sdk"
    /\ ret.op = "run_greedy_scheduler"
    /\ \E i \in 1..Len(tasks) :
           /\ tasks[i].end_week - tasks[i].start_week + 1 = 8
           /\ CandidateById(tasks[i].project_id).estimated_weeks = 8

\* C4 (windows inside the horizon): every persisted schedule task has
\* 1 <= start_week and end_week <= planning_horizon_weeks, i.e. its start week
\* lies in 1 .. horizon - duration + 1.
C4_WindowInsideHorizon ==
    \A i \in 1..Len(tasks) :
        /\ 1 <= tasks[i].start_week
        /\ tasks[i].end_week <= planning_horizon_weeks
        /\ tasks[i].start_week
               <= planning_horizon_weeks
                      - (tasks[i].end_week - tasks[i].start_week + 1) + 1

\* The crew units of the tasks of `resource_type` whose window contains `week`.
CrewInWeek(tks, resource_type, week) ==
    LET covering == SelectSeq(tks, LAMBDA t : /\ t.resource_type = resource_type
                                              /\ t.start_week <= week
                                              /\ week <= t.end_week)
    IN  SumSeq([i \in 1..Len(covering) |-> covering[i].crew_assigned])

TasksMatchCalendar(cal, tks) ==
    \A i \in 1..Len(tks) :
        \A w \in tks[i].start_week..tks[i].end_week :
            /\ <<tks[i].resource_type, w>> \in DOMAIN cal
            /\ cal[<<tks[i].resource_type, w>>].allocated
                   = CrewInWeek(tks, tks[i].resource_type, w)

\* C5 (task/calendar consistency): a scheduling run that starts from an
\* all-zero calendar without tasks leaves, for every task it persists and
\* every week of the task's window, a calendar entry whose allocated value is
\* the sum of crew_assigned over the tasks of that resource type covering
\* the week.
C5_TaskCalendarConsistency ==
    [][ ( /\ \A e \in DOMAIN calendar : calendar[e].allocated = 0
          /\ tasks = <<>>
          /\ tasks' # <<>> )
        => TasksMatchCalendar(calendar', tasks') ]_vars

\* The score the formula assigns to a signal, a missing field counting as
\* zero / false.
ScoreFormula(signal) ==
      w_safety_risk * (IF signal.safety_risk = 1 THEN 1 ELSE 0)
    + w_legal_mandate * (IF signal.legal_mandate = 1 THEN 1 ELSE 0)
    + w_population_impact
          * (IF signal.population_affected # NULL
                /\ signal.population_affected >= high_population THEN 1 ELSE 0)
    + w_complaint_volume
          * (IF signal.complaint_count # NULL
                /\ signal.complaint_count >= high_complaints THEN 1 ELSE 0)

HasCandidate(issue_id) ==
    \E i \in 1..Len(candidates) : candidates[i].issue_id = issue_id

\* C6 (threshold law): once the formation stage of a pipeline run is over, an
\* OPEN issue has a project candidate if and only if the risk score of its
\* signal is >= high_risk_score.
C6_ThresholdLaw ==
    (driver = "shim" /\ pc \in {"governance", "scheduling", "done", "failed"})
        => \A issue_id \in DOMAIN issues :
               issues[issue_id].status = "OPEN"
                   => (HasCandidate(issue_id)
                           <=> ScoreFormula(issues[issue_id]) >= high_risk_score)

\* C7 (score formula): for every signal, scoring returns exactly
\* 3*[safety_risk] + 3*[legal_mandate] + [population_affected >= 100000]
\* + [complaint_count >= 75], a value in 0..8.
C7_ScoreFormula ==
    (ret.op = "calculate_risk_score" /\ ret.status # "not found")
        => /\ ret.status = "ok"
           /\ ret.value = ScoreFormula(issues[1])
           /\ ret.value \in 0..8

\* The scenario of C8: budget 75,000,000; candidate m for a legal-mandate
\* issue costing 45,000,000; candidate n for an issue without mandate costing
\* 60,000,000 with the higher risk score.
MandateScenario(m, n) ==
    /\ quarterly_budget = 75000000
    /\ Len(candidates) = 2
    /\ issues[m.issue_id].legal_mandate = 1
    /\ m.estimated_cost = 45000000
    /\ issues[n.issue_id].legal_mandate = 0
    /\ n.estimated_cost = 60000000
    /\ n.risk_score > m.risk_score

DecisionsOf(project_id) ==
    SelectSeq(decisions, LAMBDA d : d.project_id = project_id)

\* C8 (mandate first): after the Runner's allocation stage in that scenario
\* the mandate candidate is APPROVED with the lower priority rank and the
\* other candidate is REJECTED.
C8_MandateFirst ==
    (driver = "shim" /\ pc \in {"scheduling", "done"})
        => \A a, b \in 1..Len(candidates) :
               MandateScenario(candidates[a], candidates[b])
                   => LET dm == DecisionsOf(candidates[a].project_id)
                          dn == DecisionsOf(candidates[b].project_id)
                      IN  /\ Len(dm) = 1 /\ Len(dn) = 1
                          /\ dm[1].decision = "APPROVED"
                          /\ dn[1].decision = "REJECTED"
                          /\ dm[1].priority_rank < dn[1].priority_rank

\* C9 (one decision per candidate): after the Runner's allocation stage every
\* candidate has exactly one row in portfolio_decisions, and after any
\* sequence of approve_project / reject_project calls no decided candidate
\* has more than one.
C9_OneDecisionPerCandidate ==
    /\ (driver = "shim" /\ pc \in {"scheduling", "done"})
           => \A i \in 1..Len(candidates) :
                  Len(DecisionsOf(candidates[i].project_id)) = 1
    /\ driver = "sdk"
           => \A i \in 1..Len(candidates) :
                  Len(DecisionsOf(candidates[i].project_id)) <= 1

\* C10 (decision amounts): every APPROVED decision carries the estimated_cost
\* of its candidate as allocated_budget and every REJECTED decision carries 0.
C10_DecisionAmounts ==
    \A i \in 1..Len(decisions) :
        /\ decisions[i].project_id \in CandidateIds
        /\ decisions[i].decision = "APPROVED"
               => decisions[i].allocated_budget
                      = CandidateById(decisions[i].project_id).estimated_cost
        /\ decisions[i].decision = "REJECTED" => decisions[i].allocated_budget = 0

\* approve_project and reject_project have each written a row.
C10_Witness ==
    /\ driver = "sdk"
    /\ \E i \in 1..Len(decisions) :
           decisions[i].decision = "APPROVED" /\ decisions[i].allocated_budget > 0
    /\ \E i \in 1..Len(decisions) :
           decisions[i].decision = "REJECTED" /\ decisions[i].priority_rank = 999

\* C11 (priority ranks): after the Runner's allocation stage the k APPROVED
\* decisions carry the ranks 1..k in the order they were selected, and every
\* REJECTED decision carries the rank 999, above every APPROVED rank.
C11_PriorityRanks ==
    (driver = "shim" /\ pc \in {"scheduling", "done"})
        => LET approved == SelectSeq(decisions, LAMBDA d : d.decision = "APPROVED")
           IN  /\ \A i \in 1..Len(approved) : approved[i].priority_rank = i
               /\ \A j \in 1..Len(decisions) :
                      decisions[j].decision = "REJECTED"
                          => /\ decisions[j].priority_rank = 999
                             /\ \A i \in 1..Len(approved) :
                                    approved[i].priority_rank < decisions[j].priority_rank

\* The only decision row of a candidate after the Runner's allocation stage.
DecisionOf(project_id) == DecisionsOf(project_id)[1]

NewTasks == SubSeq(tasks', Len(tasks) + 1, Len(tasks'))

\* Free units of (resource_type, week) in calendar `cal` once the tasks
\* `placed` have taken theirs.
FreeUnits(cal, placed, resource_type, week) ==
    (IF <<resource_type, week>> \in DOMAIN cal
     THEN cal[<<resource_type, week>>].capacity - cal[<<resource_type, week>>].allocated
     ELSE 0)
    - CrewInWeek(placed, resource_type, week)

\* Start week s is open to a project of `duration` weeks needing `crew` units
\* of `resource_type`: every week of [s, s + duration - 1] lies in the horizon
\* with enough free units, and for outdoor work the weather service does not
\* report more than 2 adverse days for the window.
WindowOpen(cal, placed, project_id, resource_type, crew, duration, s) ==
    /\ \A w \in s..(s + duration - 1) :
           /\ w <= planning_horizon_weeks
           /\ FreeUnits(cal, placed, resource_type, w) >= crew
    /\ ~( /\ is_outdoor_project(ProjectCategory(project_id), resource_type)
          /\ s \notin oracle_fails
          /\ s \notin oracle_bare
          /\ adverse_days(s, s + duration - 1) > 2 )

\* C13 (earliest fit): every task run_greedy_scheduler places starts at the
\* smallest week of 1 .. horizon - duration + 1 whose window is open at the
\* time the project is looked at; no smaller open start week is skipped.
C13_EarliestFit ==
    [][ ret'.op = "run_greedy_scheduler"
        => \A i \in 1..Len(NewTasks) :
               LET t == NewTasks[i]
                   duration == CandidateById(t.project_id).estimated_weeks
                   placed == SubSeq(NewTasks, 1, i - 1)
                   Open(s) == WindowOpen(calendar, placed, t.project_id, t.resource_type,
                                         t.crew_assigned, duration, s)
               IN  /\ t.start_week \in 1..(planning_horizon_weeks - duration + 1)
                   /\ Open(t.start_week)
                   /\ \A s \in 1..(t.start_week - 1) : ~Open(s) ]_vars

\* run_greedy_scheduler has placed two electrical projects, the second one
\* behind the first because the crew was taken.
C13_Witness ==
    /\ ret.op = "run_greedy_scheduler"
    /\ \E i, j \in 1..Len(tasks) :
           /\ i < j
           /\ tasks[i].resource_type = "electrical_crew"
           /\ tasks[j].resource_type = "electrical_crew"
           /\ tasks[i].start_week = 1
           /\ tasks[j].start_week = tasks[i].end_week + 1

\* The scenario of C14 after one scheduling run: two candidates, both
\* approved, of one crew type with weekly capacity 3, each needing 2 crew
\* units for 2 weeks; `first` is the one of higher priority.
CapacityScenario(first, second) ==
    /\ Len(candidates) = 2
    /\ get_approved_projects = <<first, second>>
    /\ first.required_crew_type = second.required_crew_type
    /\ \A w \in 1..planning_horizon_weeks :
           /\ <<first.required_crew_type, w>> \in DOMAIN calendar
           /\ calendar[<<first.required_crew_type, w>>].capacity = 3
    /\ first.crew_size = 2 /\ first.estimated_weeks = 2
    /\ second.crew_size = 2 /\ second.estimated_weeks = 2
    /\ \/ driver = "shim" /\ pc = "done"
       \/ driver = "sdk" /\ ret.op = "run_greedy_scheduler" /\ calls.tool = 1

\* C14 as stated (capacity scenario): whichever scheduler runs, the project
\* of higher priority is placed at start week 1 and the other at start week 3.
C14_CapacityScenario ==
    \A a, b \in {get_approved_projects[i] : i \in 1..Len(get_approved_projects)} :
        CapacityScenario(a, b)
            => /\ Len(tasks) = 2
               /\ tasks[1].project_id = a.project_id /\ tasks[1].start_week = 1
               /\ tasks[2].project_id = b.project_id /\ tasks[2].start_week = 3

\* The weather check of run_greedy_scheduler turns the window starting in
\* week s down for the second project of the scenario.
ScenarioVeto(p, s) ==
    /\ driver = "sdk"
    /\ is_outdoor_project(ProjectCategory(p.project_id), p.required_crew_type)
    /\ s \notin oracle_fails
    /\ s \notin oracle_bare
    /\ adverse_days(s, s + 1) > 2

\* C14 amended: the project of higher priority is placed at start week 1; the
\* Runner's scheduling branch places the other at start week 3;
\* run_greedy_scheduler places it at the first start week from 3 on whose
\* window the weather check does not turn down, which for outdoor work and
\* an answering weather service is week 5 (weeks 3 and 4 are forecast adverse).
C14_CapacityScenarioWeather ==
    \A a, b \in {get_approved_projects[i] : i \in 1..Len(get_approved_projects)} :
        CapacityScenario(a, b)
            => /\ Len(tasks) = 2
               /\ tasks[1].project_id = a.project_id /\ tasks[1].start_week = 1
               /\ tasks[2].project_id = b.project_id
               /\ tasks[2].start_week >= 3
               /\ ~ScenarioVeto(b, tasks[2].start_week)
               /\ \A s \in 3..(tasks[2].start_week - 1) : ScenarioVeto(b, s)
               /\ driver = "shim" => tasks[2].start_week = 3
               /\ ( /\ driver = "sdk"
                    /\ oracle_fails = {}
                    /\ oracle_bare = {}
                    /\ b.required_crew_type = "water_crew" )
                      => tasks[2].start_week = 5

\* run_greedy_scheduler has run on the scenario with two water projects and
\* an answering weather service.
C14_Witness ==
    /\ driver = "sdk"
    /\ oracle_fails = {}
    /\ oracle_bare = {}
    /\ \E a, b \in {get_approved_projects[i] : i \in 1..Len(get_approved_projects)} :
           /\ CapacityScenario(a, b)
           /\ a.required_crew_type = "water_crew"
           /\ a.project_id # b.project_id
    /\ Len(tasks) = 2

\* The tasks a run appends for the projects ahead of position k in `projects`.
TasksAhead(projects, k) ==
    SelectSeq(NewTasks, LAMBDA t : \E j \in 1..(k - 1) : projects[j].project_id = t.project_id)

\* Every week of [s, s + estimated_weeks - 1] lies in the horizon and has
\* the crew of project p free.
CapacityFree(cal, placed, p, s) ==
    \A w \in s..(s + p.estimated_weeks - 1) :
        /\ w <= planning_horizon_weeks
        /\ FreeUnits(cal, placed, p.required_crew_type, w) >= p.crew_size

\* C15 (oracle failure): in a run of run_greedy_scheduler, an outdoor project
\* with a capacity-feasible window on which the forecast call raises gets a
\* task starting no later than that window, and the run returns normally
\* with every approved project either placed or reported infeasible.
C15_OracleFailOpen ==
    [][ (ret'.op = "run_greedy_scheduler" /\ get_approved_projects # <<>>)
        => /\ ret'.status = "ok"
           /\ Len(NewTasks) + ret'.value = Len(get_approved_projects)
           /\ \A k \in 1..Len(get_approved_projects) :
                  LET p == get_approved_projects[k]
                      placed == TasksAhead(get_approved_projects, k)
                  IN  \A s \in (1..(planning_horizon_weeks - p.estimated_weeks + 1))
                                   \cap oracle_fails :
                          ( /\ is_outdoor_project(ProjectCategory(p.project_id),
                                                  p.required_crew_type)
                            /\ CapacityFree(calendar, placed, p, s) )
                              => \E i \in 1..Len(NewTasks) :
                                     /\ NewTasks[i].project_id = p.project_id
                                     /\ NewTasks[i].start_week <= s
                                     /\ \A w \in NewTasks[i].start_week..NewTasks[i].end_week :
                                            calendar'[<<p.required_crew_type, w>>].allocated
                                                >= p.crew_size ]_vars

\* An outdoor project was placed on a window for which the forecast call
\* raised and the forecast would have shown more than 2 adverse days.
C15_Witness ==
    /\ ret.op = "run_greedy_scheduler"
    /\ \E i \in 1..Len(tasks) :
           /\ tasks[i].start_week \in oracle_fails
           /\ is_outdoor_project(ProjectCategory(tasks[i].project_id), tasks[i].resource_type)
           /\ adverse_days(tasks[i].start_week, tasks[i].end_week) > 2
           /\ calendar[<<tasks[i].resource_type, tasks[i].start_week>>].allocated
                  >= tasks[i].crew_assigned

\* No start week of the horizon is open to the k-th project of `projects`
\* once the projects ahead of it in the run have been looked at.
NoWindow(projects, k) ==
    LET p == projects[k]
    IN  \A s \in 1..(planning_horizon_weeks - p.estimated_weeks + 1) :
            ~WindowOpen(calendar, TasksAhead(projects, k), p.project_id,
                        p.required_crew_type, p.crew_size, p.estimated_weeks, s)

\* The tasks a run appends for project_id.
NewTasksOf(project_id) == SelectSeq(NewTasks, LAMBDA t : t.project_id = project_id)

\* C16 (infeasible project): in a run of run_greedy_scheduler, an approved
\* project with no start week satisfying capacity and weather gets no task
\* and takes no calendar units, is counted in the infeasible report, and every
\* other project of the batch, before or after it, still gets its one task.
C16_InfeasibleProject ==
    [][ (ret'.op = "run_greedy_scheduler" /\ get_approved_projects # <<>>)
        => LET projects == get_approved_projects
               Infeasible == {k \in 1..Len(projects) : NoWindow(projects, k)}
           IN  /\ \A k \in 1..Len(projects) :
                      Len(NewTasksOf(projects[k].project_id))
                          = IF k \in Infeasible THEN 0 ELSE 1
               /\ ret'.value = Cardinality(Infeasible)
               /\ DOMAIN calendar' = DOMAIN calendar
               /\ \A e \in DOMAIN calendar :
                      /\ calendar'[e].capacity = calendar[e].capacity
                      /\ calendar'[e].allocated
                             = calendar[e].allocated + CrewInWeek(NewTasks, e[1], e[2])
               /\ SubSeq(tasks', 1, Len(tasks)) = tasks ]_vars

\* Number of tasks of project_id.
TaskCount(project_id) ==
    Cardinality({i \in 1..Len(tasks) : tasks[i].project_id = project_id})

\* A run reported an infeasible project and placed a project that comes
\* after it in priority order.
C16_Witness ==
    /\ ret.op = "run_greedy_scheduler"
    /\ ret.value >= 1
    /\ \E i, j \in 1..Len(get_approved_projects) :
           /\ i < j
           /\ TaskCount(get_approved_projects[i].project_id)
                  < TaskCount(get_approved_projects[j].project_id)

\* An OPEN issue with a signal column that is NULL.
MalformedSignal(issue) ==
    /\ issue.status = "OPEN"
    /\ \/ issue.population_affected = NULL
       \/ issue.complaint_count = NULL
       \/ issue.safety_risk = NULL
       \/ issue.legal_mandate = NULL

\* C17 (malformed signal): when the batch of a pipeline run holds an OPEN
\* issue with missing signal fields, the formation stage returns without
\* raising, and every OPEN issue of the batch whose score (missing fields as
\* zero/false) reaches the threshold has its candidate.
C17_MalformedSignalTolerance ==
    ( /\ driver = "shim"
      /\ ret.op = "formation"
      /\ \E issue_id \in DOMAIN issues : MalformedSignal(issues[issue_id]) )
        => /\ ret.status = "ok"
           /\ pc = "governance"
           /\ \A issue_id \in DOMAIN issues :
                  ( /\ issues[issue_id].status = "OPEN"
                    /\ ScoreFormula(issues[issue_id]) >= high_risk_score )
                      => HasCandidate(issue_id)

\* The budget of a request is missing, non-numeric, zero or negative.
InvalidBudget(budget) ==
    \/ budget.type \in {"no_object", "absent", "list"}
    \/ budget.type = "string" /\ budget.text \notin {"130000000"}
    \/ budget.type = "number" /\ budget.number <= 0

\* C18 (budget validation): a run-pipeline request whose budget is missing,
\* non-numeric, zero or negative is answered with a client error, starts no
\* stage and leaves candidates, decisions, tasks, audit log and calendar as
\* they were.
C18_BudgetValidation ==
    [][ ( /\ calls'.pipeline = calls.pipeline + 1
          /\ ret'.op = "run_pipeline"
          /\ InvalidBudget(ret'.value) )
        => /\ ret'.status = "400"
           /\ pc' = pc
           /\ UNCHANGED <<candidates, seq_project_id, decisions, tasks, audit_log,
                          calendar>> ]_vars

\* C19 (audit completeness): once a pipeline run is over, the audit log holds
\* one entry per candidate, per decision and per task the run wrote.
C19_AuditCompleteness ==
    pc = "done"
        => Len(audit_log) = Len(candidates) + Len(decisions) + Len(tasks)

\* The step is the clearing of the outputs that opens a run.
ClearingStep ==
    /\ pc \in {"idle", "done", "failed"}
    /\ pc' = "formation"
    /\ candidates' = <<>> /\ decisions' = <<>> /\ tasks' = <<>>

\* C20 (stage ordering): within a pipeline run the stages follow one another
\* as formation, allocation, scheduling; candidates are written only while
\* the formation stage runs, decisions only while the allocation stage runs
\* (the candidates are then complete and no longer change), tasks and
\* calendar entries only while the scheduling stage runs (candidates and
\* decisions no longer change).
C20_StageOrdering ==
    [][ \/ ClearingStep
        \/ /\ pc' # pc => <<pc, pc'>> \in { <<"formation", "governance">>,
                                            <<"formation", "failed">>,
                                            <<"governance", "scheduling">>,
                                            <<"scheduling", "done">> }
           /\ candidates' # candidates
                  => pc = "formation" /\ pc' # "scheduling"
                         /\ UNCHANGED <<decisions, tasks, calendar>>
           /\ decisions' # decisions
                  => pc = "governance" /\ UNCHANGED <<candidates, tasks, calendar>>
           /\ (tasks' # tasks \/ calendar' # calendar)
                  => pc = "scheduling" /\ UNCHANGED <<candidates, decisions>> ]_vars

\* A run went through the three stages and each wrote its rows.
C20_Witness ==
    /\ pc = "done"
    /\ calls.pipeline = 1
    /\ Len(candidates) > 0
    /\ Len(decisions) > 0
    /\ Len(tasks) > 0

C22_AtomicCheckThenCommit ==
    [][ /\ \A c \in inflight \cap inflight' :
               calendar'[<<c.resource_type, c.week>>] = calendar[<<c.resource_type, c.week>>]
        /\ \A e \in DOMAIN calendar' :
               calendar'[e].allocated <= calendar'[e].capacity ]_vars

\* C23 (validator capacity check): every resource violation the validator
\* reports names a calendar entry with allocated > capacity at the time of
\* the check.
C23_ValidatorCapacityCheck ==
    (ret.op = "validate_complete_pipeline" /\ ret.status = "ok")
        => \A f \in ret.value.schedule_feasibility :
               f.kind = "Resource violation"
                   => calendar[<<f.resource_type, f.week>>].allocated
                          > calendar[<<f.resource_type, f.week>>].capacity

\* C24 (validator read-only): a run of validate_complete_pipeline leaves
\* candidates, decisions, tasks, calendar and audit log as they were and
\* returns its report without raising, with or without findings.
C24_ValidatorReadOnly ==
    [][ ret'.op = "validate_complete_pipeline"
        => /\ ret'.status = "ok"
           /\ UNCHANGED <<candidates, seq_project_id, decisions, tasks, calendar,
                          audit_log, pc>> ]_vars

\* The validator returned a report with findings on a store that holds tasks.
C24_Witness ==
    /\ ret.op = "validate_complete_pipeline"
    /\ ret.status = "ok"
    /\ Len(tasks) > 0
    /\ ret.value.schedule_feasibility # {}

\* Number of candidate rows that reference issue_id.
CandidatesOf(issue_id) ==
    Cardinality({i \in 1..Len(candidates) : candidates[i].issue_id = issue_id})

\* C25 (one candidate per issue): whatever stages are run, and however often
\* the formation stage is run again, every issue is referenced by at most one
\* candidate row and the rows already written stay as they are.
C25_OneCandidatePerIssue ==
    [][ /\ Len(candidates') >= Len(candidates)
        /\ SubSeq(candidates', 1, Len(candidates)) = candidates
        /\ \A issue_id \in DOMAIN issues :
               Cardinality({i \in 1..Len(candidates') :
                                candidates'[i].issue_id = issue_id}) <= 1 ]_vars

\* C26 (one task per project): with one candidate per issue and one decision
\* per project, however often the scheduling stage is run, every project has
\* at most one task, and every task belongs to a project whose decision is
\* APPROVED (so no REJECTED project has a task).
C26_OneTaskPerProject ==
    ( /\ \A issue_id \in DOMAIN issues : CandidatesOf(issue_id) <= 1
      /\ \A project_id \in CandidateIds : Len(DecisionsOf(project_id)) <= 1 )
        => /\ \A project_id \in CandidateIds : TaskCount(project_id) <= 1
           /\ \A i \in 1..Len(tasks) :
                  /\ Len(DecisionsOf(tasks[i].project_id)) = 1
                  /\ DecisionOf(tasks[i].project_id).decision = "APPROVED"

\* The value returned by the last call, when it was run_knapsack_optimization.
KnapsackReturned == ret.op = "run_knapsack_optimization" /\ ret.status # "no candidates"

SeqRange(s) == {s[i] : i \in 1..Len(s)}

\* What the mandates encountered before position i, and selected, have cost.
MandateSpendBefore(order, i, mandatory) ==
    SumSeq([j \in 1..(i - 1) |->
               IF Truthy(LegalMandate(order[j])) /\ order[j].project_id \in SeqRange(mandatory)
               THEN order[j].estimated_cost ELSE 0])

\* C27: with must_include_legal_mandates, the mandatory phase of
\* run_knapsack_optimization selects exactly the legal-mandate candidates
\* whose cost is at most the budget left when they are encountered (the
\* budget less the full cost of the mandates selected before them), in the
\* order of encounter; in the returned selection they come first, before
\* every non-mandate candidate, and the remaining budget is the budget less
\* the full cost of everything selected.
C27_MandatoryPhase ==
    (KnapsackReturned /\ ret.value.must_include_legal_mandates) =>
        LET order == get_project_candidates
            v == ret.value
            m == Len(v.mandatory)
        IN  /\ \A i \in 1..Len(order) :
                   order[i].project_id \in SeqRange(v.mandatory)
                   <=> /\ Truthy(LegalMandate(order[i]))
                       /\ order[i].estimated_cost
                            <= quarterly_budget - MandateSpendBefore(order, i, v.mandatory)
            /\ \A a, b \in 1..m :
                   a < b => \E i, j \in 1..Len(order) :
                                /\ i < j
                                /\ order[i].project_id = v.mandatory[a]
                                /\ order[j].project_id = v.mandatory[b]
            /\ ret.status = "ok" =>
                   /\ m <= Len(v.selected)
                   /\ SubSeq(v.selected, 1, m) = v.mandatory
                   /\ \A k \in (m + 1)..Len(v.selected) :
                          ~Truthy(LegalMandate(CandidateById(v.selected[k])))
                   /\ v.remaining_budget
                        = quarterly_budget
                          - SumSeq([k \in 1..Len(v.selected) |->
                                       CandidateById(v.selected[k]).estimated_cost])

\* A mandate is selected in the mandatory phase although a non-mandate
\* candidate of higher risk score, selected after it, was read first.
C27_Witness ==
    /\ KnapsackReturned
    /\ ret.status = "ok"
    /\ ret.value.must_include_legal_mandates
    /\ Len(ret.value.mandatory) >= 1
    /\ Len(ret.value.selected) > Len(ret.value.mandatory)
    /\ CandidateById(ret.value.selected[Len(ret.value.selected)]).risk_score
         > CandidateById(ret.value.mandatory[1]).risk_score

\* The legal-mandate candidates the mandatory phase has left out.
UnfitMandates ==
    {c \in SeqRange(get_project_candidates) :
        Truthy(LegalMandate(c)) /\ c.project_id \notin SeqRange(ret.value.mandatory)}

ConsideredBefore(order, a, b) ==
    LET Index(c) == CHOOSE i \in 1..Len(order) : order[i].project_id = c.project_id
    IN  \/ ValueDensityGreater(a, b)
        \/ (~ValueDensityGreater(b, a) /\ Index(a) < Index(b))

\* The greedy phase of the tool: what it selects after the mandatory phase
\* is in the order of consideration, and a candidate is selected exactly when
\* its cost is at most the budget left by the mandatory phase and by the
\* candidates considered before it and selected.
KnapsackGreedyPhase ==
    (KnapsackReturned /\ ret.status = "ok") =>
        LET v == ret.value
            order == get_project_candidates
            rest == RemainingCandidates(order, [i \in 1..Len(v.mandatory) |->
                                                   CandidateById(v.mandatory[i])])
            greedy == SubSeq(v.selected, Len(v.mandatory) + 1, Len(v.selected))
            left == quarterly_budget
                    - SumSeq([i \in 1..Len(v.mandatory) |->
                                 CandidateById(v.mandatory[i]).estimated_cost])
            SpentBefore(c) ==
                SumSeq([i \in 1..Len(rest) |->
                           IF /\ rest[i].project_id \in SeqRange(greedy)
                              /\ rest[i].project_id # c.project_id
                              /\ ConsideredBefore(order, rest[i], c)
                           THEN rest[i].estimated_cost ELSE 0])
        IN  /\ \A i \in 1..Len(rest) :
                   rest[i].project_id \in SeqRange(greedy)
                   <=> rest[i].estimated_cost <= left - SpentBefore(rest[i])
            /\ \A a, b \in 1..Len(greedy) :
                   a < b => ConsideredBefore(order, CandidateById(greedy[a]),
                                             CandidateById(greedy[b]))

\* The Governance branch of the Runner: its decision rows are written in the
\* order of consideration (priority_rank counts them), so that order has to
\* be the one of descending value density (among the candidates without a
\* legal mandate that have a cost, hence a density), and a row is APPROVED
\* exactly when the cost is at most the budget left by the rows before it.
RunnerGreedyPhase ==
    (ret.op = "governance" /\ pc = "scheduling") =>
        LET order == get_project_candidates
            Priced(i) == LET c == CandidateById(decisions[i].project_id)
                         IN  c.estimated_cost > 0 /\ ~Truthy(LegalMandate(c))
        IN  /\ \A i, j \in 1..Len(decisions) :
                   (i < j /\ Priced(i) /\ Priced(j))
                   => ConsideredBefore(order, CandidateById(decisions[i].project_id),
                                       CandidateById(decisions[j].project_id))
            /\ \A i \in 1..Len(decisions) :
                   decisions[i].decision = "APPROVED"
                   <=> CandidateById(decisions[i].project_id).estimated_cost
                         <= quarterly_budget
                            - SumSeq([j \in 1..(i - 1) |-> decisions[j].allocated_budget])

\* C29: in the greedy phase, of run_knapsack_optimization and of the
\* Runner's Governance branch alike, the candidates are considered in
\* descending order of value density, equal densities in their original
\* order, and each is accepted if and only if its cost is at most the budget
\* remaining at that moment.
C29_GreedyPhase == KnapsackGreedyPhase /\ RunnerGreedyPhase

\* C30: with every estimated cost >= 0, a cost of 0 included, a call of
\* run_knapsack_optimization on a non-empty candidate set completes and puts
\* every candidate either in the selection or among the rejected ids, and the
\* Runner's Governance branch completes with a decision row for every
\* candidate.
C30_ZeroCostCompletes ==
    (\A i \in 1..Len(candidates) : candidates[i].estimated_cost >= 0) =>
        /\ KnapsackReturned =>
               /\ ret.status = "ok"
               /\ \A pid \in CandidateIds :
                      (pid \in SeqRange(ret.value.selected))
                      # (pid \in SeqRange(ret.value.rejected_ids))
        /\ (ret.op = "governance" /\ pc = "scheduling") =>
               /\ ret.status = "ok"
               /\ \A pid \in CandidateIds :
                      \E i \in 1..Len(decisions) :
                          /\ decisions[i].project_id = pid
                          /\ decisions[i].decision \in {"APPROVED", "REJECTED"}

\* C31 (priority order): run_greedy_scheduler commits its tasks in ascending
\* priority_rank, and what it decides for a project depends only on the
\* calendar before the run and on the tasks of the projects of higher
\* priority: the project gets the earliest window open once those have taken
\* their units, and is infeasible only when no window is open then, so a
\* project of lower priority never takes capacity from it.
C31_PriorityOrder ==
    [][ (ret'.op = "run_greedy_scheduler" /\ get_approved_projects # <<>>)
        => LET projects == get_approved_projects
               Rank(t) == CHOOSE r \in {decisions[i].priority_rank : i \in 1..Len(decisions)} :
                              \E i \in 1..Len(decisions) :
                                  /\ decisions[i].project_id = t.project_id
                                  /\ decisions[i].decision = "APPROVED"
                                  /\ decisions[i].priority_rank = r
           IN  /\ \A i, j \in 1..Len(NewTasks) :
                      i < j => Rank(NewTasks[i]) <= Rank(NewTasks[j])
               /\ \A k \in 1..Len(projects) :
                      LET p == projects[k]
                          ahead == SelectSeq(NewTasks, LAMBDA t : Rank(t) < p.priority_rank)
                          upto == SelectSeq(NewTasks, LAMBDA t : Rank(t) <= p.priority_rank
                                                                /\ t.project_id # p.project_id)
                          Open(placed, s) ==
                              WindowOpen(calendar, placed, p.project_id, p.required_crew_type,
                                         p.crew_size, p.estimated_weeks, s)
                          Starts == 1..(planning_horizon_weeks - p.estimated_weeks + 1)
                      IN  /\ (\E s \in Starts : Open(upto, s))
                                 => Len(NewTasksOf(p.project_id)) = 1
                          /\ \A i \in 1..Len(NewTasksOf(p.project_id)) :
                                 /\ Open(ahead, NewTasksOf(p.project_id)[i].start_week)
                                 /\ \A s \in 1..(NewTasksOf(p.project_id)[i].start_week - 1) :
                                        ~Open(upto, s) ]_vars

\* The project approved second has rank 1 and the one approved first rank 2;
\* the run has given week 1 to the former and a later week to the latter.
C31_Witness ==
    /\ ret.op = "run_greedy_scheduler"
    /\ Len(tasks) = 2
    /\ Len(decisions) = 2
    /\ tasks[1].project_id = decisions[2].project_id
    /\ tasks[2].project_id = decisions[1].project_id
    /\ decisions[2].priority_rank < decisions[1].priority_rank
    /\ tasks[1].start_week = 1
    /\ tasks[2].start_week > tasks[1].end_week
    /\ tasks[1].resource_type = tasks[2].resource_type

\* The weather service reports more than 2 adverse days for the window of
\* `duration` weeks starting in week s: the call returns, the forecast
\* carries adverse_days, and the value is above 2.
ReportsAdverse(s, duration) ==
    /\ s \notin oracle_fails
    /\ s \notin oracle_bare
    /\ adverse_days(s, s + duration - 1) > 2

\* C32 (weather threshold): in a run of run_greedy_scheduler the scan of an
\* outdoor project passes over a capacity-feasible window exactly when the
\* weather service reports more than 2 adverse days for it: every
\* capacity-feasible window before the one that is taken has such a report,
\* the window taken has none (2 adverse days, or a forecast without
\* adverse_days, do not turn it down), and a project is left without a task
\* only if every capacity-feasible window has such a report; a window passed
\* over gets no allocation.
C32_WeatherThreshold ==
    [][ (ret'.op = "run_greedy_scheduler" /\ get_approved_projects # <<>>)
        => LET projects == get_approved_projects
           IN  /\ \A k \in 1..Len(projects) :
                      LET p == projects[k]
                          mine == NewTasksOf(p.project_id)
                          Feasible(s) == CapacityFree(calendar, TasksAhead(projects, k), p, s)
                          last == IF mine = <<>>
                                  THEN planning_horizon_weeks - p.estimated_weeks + 1
                                  ELSE mine[1].start_week - 1
                      IN  is_outdoor_project(ProjectCategory(p.project_id), p.required_crew_type)
                          => /\ Len(mine) <= 1
                             /\ \A s \in 1..last :
                                    Feasible(s) => ReportsAdverse(s, p.estimated_weeks)
                             /\ mine # <<>> =>
                                    /\ Feasible(mine[1].start_week)
                                    /\ ~ReportsAdverse(mine[1].start_week, p.estimated_weeks)
               /\ \A e \in DOMAIN calendar :
                      calendar'[e].allocated
                          = calendar[e].allocated + CrewInWeek(NewTasks, e[1], e[2]) ]_vars

\* An outdoor project was placed on a window for which the weather service
\* reports exactly 2 adverse days, after windows with more were passed over.
C32_Witness ==
    /\ ret.op = "run_greedy_scheduler"
    /\ oracle_fails = {}
    /\ oracle_bare = {}
    /\ \E i \in 1..Len(tasks) :
           /\ is_outdoor_project(ProjectCategory(tasks[i].project_id), tasks[i].resource_type)
           /\ adverse_days(tasks[i].start_week, tasks[i].end_week) = 2
           /\ tasks[i].start_week > 1
           /\ adverse_days(1, tasks[i].end_week - tasks[i].start_week + 1) > 2

\* An outdoor project was placed on a window with a forecast of more than 2
\* adverse days that came back without the adverse_days field.
C32_WitnessBare ==
    /\ ret.op = "run_greedy_scheduler"
    /\ \E i \in 1..Len(tasks) :
           /\ is_outdoor_project(ProjectCategory(tasks[i].project_id), tasks[i].resource_type)
           /\ tasks[i].start_week \in oracle_bare
           /\ adverse_days(tasks[i].start_week, tasks[i].end_week) > 2

\* The category of the issue a project comes from.
IssueCategory(project_id) ==
    LET issue_id == CandidateById(project_id).issue_id
    IN  IF issue_id \in DOMAIN issues THEN issues[issue_id].category ELSE ""

\* Outdoor work as the classification reads: by the category of the
\* project's issue or by its crew type.
OutdoorWork(p) ==
    \/ IssueCategory(p.project_id) \in {"Infrastructure", "Water", "Construction"}
    \/ p.required_crew_type \in {"construction_crew", "water_crew", "general_crew"}

\* C33 (weather only for outdoor work): in a run of run_greedy_scheduler a
\* project is treated as outdoor exactly when its issue category is
\* Infrastructure, Water or Construction or its crew type is
\* construction_crew, water_crew or general_crew: for any other project the
\* weather service is never called and the project gets the earliest
\* capacity-feasible window whatever the forecast, and for an outdoor
\* project the service is called for every capacity-feasible window the
\* scan reaches.
C33_WeatherOnlyOutdoor ==
    [][ (ret'.op = "run_greedy_scheduler" /\ get_approved_projects # <<>>)
        => LET projects == get_approved_projects
           IN  \A k \in 1..Len(projects) :
                   LET p == projects[k]
                       mine == NewTasksOf(p.project_id)
                       Feasible(s) == CapacityFree(calendar, TasksAhead(projects, k), p, s)
                       Starts == 1..(planning_horizon_weeks - p.estimated_weeks + 1)
                       asked == {q \in OracleQueries : q[1] = p.project_id}
                   IN  /\ ~OutdoorWork(p) =>
                              /\ asked = {}
                              /\ (\E s \in Starts : Feasible(s)) => mine # <<>>
                              /\ mine # <<>> =>
                                     /\ Feasible(mine[1].start_week)
                                     /\ \A s \in 1..(mine[1].start_week - 1) : ~Feasible(s)
                       /\ OutdoorWork(p) =>
                              \A s \in Starts :
                                  (Feasible(s) /\ (mine = <<>> \/ s <= mine[1].start_week))
                                      => <<p.project_id, s>> \in asked ]_vars

\* The projects with an APPROVED decision.
ApprovedIds == {get_approved_projects[i].project_id : i \in 1..Len(get_approved_projects)}

\* C34 (terminal states): a scheduling run, of run_greedy_scheduler or of
\* the Runner's Scheduling branch, returns, and at its end every approved
\* project is either PLACED, with exactly one task created in this run, or
\* INFEASIBLE, with none; the tasks that existed before the run are still
\* there, and the placed and the infeasible projects together are the
\* approved projects (run_greedy_scheduler reports the infeasible ones, the
\* Runner the placed ones).
C34_TerminalStates ==
    [][ (ret'.op \in {"run_greedy_scheduler", "scheduling"} /\ get_approved_projects # <<>>)
        => /\ ret'.status = "ok"
           /\ SubSeq(tasks', 1, Len(tasks)) = tasks
           /\ \A i \in 1..Len(NewTasks) : NewTasks[i].project_id \in ApprovedIds
           /\ \A project_id \in ApprovedIds : Len(NewTasksOf(project_id)) \in {0, 1}
           /\ ret'.op = "run_greedy_scheduler"
                  => Len(NewTasks) + ret'.value = Cardinality(ApprovedIds)
           /\ ret'.op = "scheduling"
                  => /\ Len(NewTasks) = ret'.value
                     /\ Len(NewTasks) <= Cardinality(ApprovedIds) ]_vars

\* C35 (rejected allocation): a call allocate_resource(resource_type, week,
\* units) returns False exactly when there is no calendar entry for
\* (resource_type, week) or units is above capacity - allocated of that
\* entry, and then no calendar entry changes; when it returns True the
\* allocated value of that one entry grows by units and no other entry, and
\* nothing else in the store, changes.
C35_RejectedAllocation ==
    [][ (driver = "sdk" /\ ret'.op = "allocate_resource")
        => LET a == ret'.value
               e == <<a.resource_type, a.week>>
           IN  /\ ret'.status \in {"True", "False"}
               /\ ret'.status = "False"
                      <=> \/ e \notin DOMAIN calendar
                          \/ a.units > calendar[e].capacity - calendar[e].allocated
               /\ ret'.status = "False" => calendar' = calendar
               /\ ret'.status = "True" =>
                      /\ DOMAIN calendar' = DOMAIN calendar
                      /\ calendar'[e].allocated = calendar[e].allocated + a.units
                      /\ calendar'[e].capacity = calendar[e].capacity
                      /\ \A f \in DOMAIN calendar \ {e} : calendar'[f] = calendar[f]
               /\ UNCHANGED <<candidates, decisions, tasks, audit_log>> ]_vars

\* A request that the capacity alone would have allowed was turned down
\* because of what is already allocated on the entry, which keeps its value.
C35_Witness ==
    /\ driver = "sdk"
    /\ ret.op = "allocate_resource"
    /\ ret.status = "False"
    /\ <<ret.value.resource_type, ret.value.week>> \in DOMAIN calendar
    /\ LET entry == calendar[<<ret.value.resource_type, ret.value.week>>]
       IN  /\ ret.value.units <= entry.capacity
           /\ entry.allocated > 0
           /\ entry.allocated < entry.capacity

\* The step function of the resource estimate: <<estimated_weeks, crew_size>>.
EstimateTier(cost) ==
    CASE cost >= 50000000 -> <<8, 3>>
      [] 10000000 <= cost /\ cost < 50000000 -> <<4, 2>>
      [] 1000000 <= cost /\ cost < 10000000 -> <<2, 2>>
      [] OTHER -> <<1, 1>>

\* C36 (resource estimate): every candidate the Runner's Formation branch
\* creates has (estimated_weeks, crew_size) = (8, 3) for a cost of at least
\* 50,000,000, (4, 2) from 10,000,000, (2, 2) from 1,000,000 and (1, 1)
\* below, so both are at least 1; estimate_project_resources returns the same
\* pair for the cost it is given, which is also the pair the Runner computes
\* for that cost.
C36_ResourceEstimate ==
    /\ driver = "shim" =>
           \A i \in 1..Len(candidates) :
               /\ <<candidates[i].estimated_weeks, candidates[i].crew_size>>
                      = EstimateTier(candidates[i].estimated_cost)
               /\ candidates[i].estimated_weeks >= 1
               /\ candidates[i].crew_size >= 1
    /\ ret.op = "estimate_project_resources" =>
           /\ <<ret.value.weeks, ret.value.crew_size>> = EstimateTier(ret.value.estimated_cost)
           /\ ret.value.weeks = EstimateWeeks(ret.value.estimated_cost)
           /\ ret.value.crew_size = EstimateCrew(ret.value.estimated_cost)

\* The Runner has created a candidate for a cost exactly on the highest
\* threshold next to one just below it.
C36_Witness ==
    /\ driver = "shim"
    /\ \E i, j \in 1..Len(candidates) :
           /\ candidates[i].estimated_cost = 50000000
           /\ candidates[i].estimated_weeks = 8
           /\ candidates[j].estimated_cost = 49999999
           /\ candidates[j].estimated_weeks = 4

\* C37 (allocation rerun): after any execution of the allocation stage
\* through run_interactive_stage, also one on a store that already holds the
\* decisions of an earlier execution, the allocated_budget of the APPROVED
\* decisions in the store adds up to at most quarterly_budget.
C37_RerunBudgetInvariant ==
    (driver = "shim" /\ ret.op = "governance" /\ pc = "idle")
        => SumSeq([i \in 1..Len(decisions) |->
                      IF decisions[i].decision = "APPROVED"
                      THEN decisions[i].allocated_budget ELSE 0]) <= quarterly_budget

\* C38 (approve_project failure): a call approve_project(project_id,
\* priority_rank) for a project_id that is not a candidate, or for a
\* candidate whose estimated cost added to the budget already allocated to
\* APPROVED decisions exceeds quarterly_budget, returns an error and leaves
\* portfolio_decisions and audit_log as they were; any other call appends
\* exactly one APPROVED decision of that project and exactly one
\* PROJECT_APPROVED audit entry.
C38_ApproveProjectFailure ==
    [][ ret'.op = "approve_project"
        => LET a == ret'.value
               fails == \/ a.project_id \notin CandidateIds
                        \/ ApprovedTotal + CandidateById(a.project_id).estimated_cost
                               > quarterly_budget
           IN  /\ fails <=> ret'.status # "ok"
               /\ fails => (decisions' = decisions /\ audit_log' = audit_log)
               /\ ~fails =>
                      /\ Len(decisions') = Len(decisions) + 1
                      /\ SubSeq(decisions', 1, Len(decisions)) = decisions
                      /\ decisions'[Len(decisions')].project_id = a.project_id
                      /\ decisions'[Len(decisions')].decision = "APPROVED"
                      /\ Len(audit_log') = Len(audit_log) + 1
                      /\ SubSeq(audit_log', 1, Len(audit_log)) = audit_log
                      /\ audit_log'[Len(audit_log')]
                             = AuditRow("PROJECT_APPROVED", "governance_agent", a.project_id)
               /\ UNCHANGED <<candidates, calendar, tasks>> ]_vars

\* approve_project has refused a candidate for lack of budget after an
\* earlier approval, and the store holds that one decision only.
C38_Witness ==
    /\ ret.op = "approve_project"
    /\ ret.status = "insufficient budget"
    /\ ret.value.project_id \in CandidateIds
    /\ Len(decisions) = 1
    /\ decisions[1].decision = "APPROVED"
    /\ Cardinality({i \in 1..Len(audit_log) : audit_log[i].event_type = "PROJECT_APPROVED"}) = 1

\* C39 (no priority inversion between identical requests): after a run of
\* run_greedy_scheduler, of two approved projects with the same crew type,
\* crew size, duration and outdoor classification, when the one of lower
\* priority (greater priority_rank) has a task, the one of higher priority
\* has a task too, and it starts no later.
C39_NoPriorityInversion ==
    [][ ret'.op = "run_greedy_scheduler"
        => LET projects == get_approved_projects
           IN  \A h, l \in 1..Len(projects) :
                   LET hi == projects[h]
                       lo == projects[l]
                   IN  ( /\ hi.project_id # lo.project_id
                         /\ hi.priority_rank # NULL
                         /\ lo.priority_rank # NULL
                         /\ hi.priority_rank < lo.priority_rank
                         /\ hi.required_crew_type = lo.required_crew_type
                         /\ hi.crew_size = lo.crew_size
                         /\ hi.estimated_weeks = lo.estimated_weeks
                         /\ OutdoorWork(hi) <=> OutdoorWork(lo)
                         /\ NewTasksOf(lo.project_id) # <<>> )
                       => /\ NewTasksOf(hi.project_id) # <<>>
                          /\ NewTasksOf(hi.project_id)[1].start_week
                                 <= NewTasksOf(lo.project_id)[1].start_week ]_vars

\* C40 (reset frame): a clear_agent_outputs step leaves no candidate, no
\* decision, no task and no audit entry, sets allocated to 0 on every
\* calendar entry, and keeps the issues with their signals and every
\* calendar entry's capacity; every other step keeps the audit entries
\* written so far and lowers no calendar entry's allocated value.
C40_ResetFrame ==
    [][ /\ ret'.op = "clear_agent_outputs"
           => /\ candidates' = <<>>
              /\ decisions' = <<>>
              /\ tasks' = <<>>
              /\ audit_log' = <<>>
              /\ DOMAIN calendar' = DOMAIN calendar
              /\ \A e \in DOMAIN calendar :
                     /\ calendar'[e].allocated = 0
                     /\ calendar'[e].capacity = calendar[e].capacity
              /\ issues' = issues
        /\ ret'.op # "clear_agent_outputs"
           => /\ Len(audit_log') >= Len(audit_log)
              /\ SubSeq(audit_log', 1, Len(audit_log)) = audit_log
              /\ DOMAIN calendar' = DOMAIN calendar
              /\ \A e \in DOMAIN calendar :
                     /\ calendar'[e].allocated >= calendar[e].allocated
                     /\ calendar'[e].capacity = calendar[e].capacity ]_vars

\* The reset has just run on a store in which the tools had created
\* projects and the scheduling agent had worked: nothing of it is left, and
\* the project ids go on from where they were.
C40_Witness ==
    /\ ret.op = "clear_agent_outputs"
    /\ driver = "sdk"
    /\ seq_project_id > 0
    /\ calls.tool > 0
    /\ candidates = <<>>
    /\ decisions = <<>>
    /\ tasks = <<>>
    /\ audit_log = <<>>
    /\ \A e \in DOMAIN calendar : calendar[e].allocated = 0

============================================================================
